---- MODULE Spec2Model ----
(***************************************************************************)
(* Contract analyzer: the clause-extraction and compliance pipeline        *)
(* (app/core/analyzer.py, app/core/compliance.py, app/core/report.py),     *)
(* the model-call capability (app/services/llm.py) and the HTTP routes     *)
(* that drive them (app/api/routes/contracts.py).                          *)
(*                                                                         *)
(* Conventions.  An optional value (Python None / a value) is a sequence   *)
(* of length 0 or 1.  A JSON value is a record with a tag t and one        *)
(* payload field per JSON type.  Text that the code edits character by     *)
(* character (clause text) is a sequence of one-character strings; text    *)
(* the code only copies is a TLA+ string.  Coroutines run on one asyncio   *)
(* event loop: "running" names the coroutine that holds the loop, and a    *)
(* coroutine gives the loop up only where the code awaits the model call   *)
(* or file I/O, or when it ends.                                           *)
(***************************************************************************)
EXTENDS Integers, Sequences, FiniteSets, TLC

VARIABLES
    task,          \* per coroutine: one ContractAnalyzer.analyze_contract call
    clause_cache,  \* per ComplianceAnalyzer instance: _clause_cache
    next_id,       \* source of fresh uuid4 values
    running,       \* coroutine holding the event loop, 0 when the loop is idle
    gen,           \* one LLMService.generate call under its retry decorator
    http,          \* per HTTP request: position and response of the route handler
    fs,            \* StorageService's temporary directory and its files
    call           \* one call of a function of the pipeline on its own

vars == <<task, clause_cache, next_id, running, gen, http, fs, call>>

----------------------------------------------------------------------------
(* Bounds of the model *)

MaxItems == 2      \* elements of the "clauses" array in a completion
MaxRegs == 2       \* length of the requested regulation list
MaxPairs == 4      \* (reported element, regulation) pairs of one analysis
MaxGenCalls == 3   \* generate calls made by the client of the LLM service
MaxFiles == 2      \* files uploaded in one batch request
MaxTextLen == 5    \* characters of a text handed to a normalizer
MaxCategories == 2 \* entries of the secondary_categories of a reported clause
MaxProse == 2      \* tokens of prose and markup around the JSON of a completion
MaxReportPairs == 10 \* (clause, regulation) pairs given to the compliance statistics
MaxClauseList == 5 \* clauses given to the category statistics

(* Program constants *)

MaxAttempts == 3   \* stop_after_attempt(3)
WaitMin == 4       \* wait_exponential(min=4)
WaitMax == 10      \* wait_exponential(max=10)
WaitMultiplier == 1
RiskScore == 5     \* risk_score=5.0

Tasks == {1, 2}
Analyzers == {1, 2}
Requests == {1, 2}

Regulations == {"gdpr", "hipaa"}

SeqsUpTo(S, n) == UNION {[1..k -> S] : k \in 0..n}

RegLists == SeqsUpTo(Regulations, MaxRegs)

Range(s) == {s[i] : i \in DOMAIN s}

----------------------------------------------------------------------------
(* JSON values as json.loads yields them *)

JAbsent == [t |-> "absent", b |-> FALSE, s |-> "", n |-> 0, l |-> <<>>]
JNull == [t |-> "null", b |-> FALSE, s |-> "", n |-> 0, l |-> <<>>]
JBool(x) == [t |-> "bool", b |-> x, s |-> "", n |-> 0, l |-> <<>>]
JStr(x) == [t |-> "str", b |-> FALSE, s |-> x, n |-> 0, l |-> <<>>]
JNum(x) == [t |-> "num", b |-> FALSE, s |-> "", n |-> x, l |-> <<>>]
JList(x) == [t |-> "list", b |-> FALSE, s |-> "", n |-> 0, l |-> x]

\* dict.get(key, default): the default replaces an absent key only
Get(v, default) == IF v.t = "absent" THEN default ELSE v

\* Python truthiness, bool(v)
Truthy(v) ==
    CASE v.t = "bool" -> v.b
      [] v.t = "str" -> v.s # ""
      [] v.t = "num" -> v.n # 0
      [] v.t = "list" -> v.l # <<>>
      [] OTHER -> FALSE

----------------------------------------------------------------------------
(* Text normalisation of the clause extractor *)

Whitespace == {" ", "\t", "\n", "\r"}

\* str.split() with no argument: the maximal runs of non-whitespace
RECURSIVE SplitWords(_, _, _)
SplitWords(text, i, word) ==
    IF i > Len(text)
        THEN IF word = <<>> THEN <<>> ELSE <<word>>
        ELSE IF text[i] \in Whitespace
            THEN IF word = <<>>
                THEN SplitWords(text, i + 1, <<>>)
                ELSE <<word>> \o SplitWords(text, i + 1, <<>>)
            ELSE SplitWords(text, i + 1, Append(word, text[i]))

\* ' '.join(words)
RECURSIVE JoinSpace(_)
JoinSpace(words) ==
    IF words = <<>> THEN <<>>
    ELSE IF Len(words) = 1 THEN words[1]
    ELSE words[1] \o <<" ">> \o JoinSpace(Tail(words))

\* str.strip()
RECURSIVE Strip(_)
Strip(text) ==
    IF text = <<>> THEN <<>>
    ELSE IF text[1] \in Whitespace THEN Strip(Tail(text))
    ELSE IF text[Len(text)] \in Whitespace THEN Strip(SubSeq(text, 1, Len(text) - 1))
    ELSE text

\* ComplianceAnalyzer._clean_text; is_str is isinstance(text, str)
CleanText(is_str, text) ==
    IF text = <<>> \/ ~is_str THEN <<>>
    ELSE Strip(JoinSpace(SplitWords(text, 1, <<>>)))

----------------------------------------------------------------------------
(* Text normalisation of document ingestion *)

\* The characters of the texts: a letter, the space, the newline, and the
\* control characters U+0001 and U+0000 written SOH and NUL
Characters == {"a", " ", "\n", "SOH", "NUL"}

\* The characters with ord(char) < 32
ControlCharacters == {"\t", "\n", "\r", "SOH", "NUL"}

\* re.sub(r'\s+', ' ', text): every maximal run of whitespace becomes one space
RECURSIVE CollapseWhitespace(_)
CollapseWhitespace(text) ==
    IF text = <<>> THEN <<>>
    ELSE IF text[1] \in Whitespace
        THEN IF Len(text) > 1 /\ text[2] \in Whitespace
                 THEN CollapseWhitespace(Tail(text))
                 ELSE <<" ">> \o CollapseWhitespace(Tail(text))
        ELSE <<text[1]>> \o CollapseWhitespace(Tail(text))

\* str.replace(old, new) for one-character old and new
Replace(text, old, new) ==
    [i \in DOMAIN text |-> IF text[i] = old THEN new ELSE text[i]]

\* ''.join(char for char in text if char not in removed)
RECURSIVE Remove(_, _)
Remove(text, removed) ==
    IF text = <<>> THEN <<>>
    ELSE IF text[1] \in removed THEN Remove(Tail(text), removed)
    ELSE <<text[1]>> \o Remove(Tail(text), removed)

\* ContractParser._clean_text.  Both quote literals of line 84 are the
\* straight quote U+0022.
ParserCleanText(text) ==
    LET collapsed == CollapseWhitespace(text)
        no_nul == Remove(collapsed, {"NUL"})
        quoted == Replace(Replace(no_nul, "\"", "\""), "\"", "\"")
        printable == Remove(quoted, ControlCharacters)
    IN Strip(printable)

----------------------------------------------------------------------------
(* Validation of the fields of a model-reported clause *)

\* A value of a clause field as json.loads yields it: a string (its
\* characters in text), a number (str(number) in text), a list (its items in
\* l), null, or no value when the key is absent
TAbsent == [t |-> "absent", text |-> <<>>, l |-> <<>>]
TNull == [t |-> "null", text |-> <<>>, l |-> <<>>]
TStr(x) == [t |-> "str", text |-> x, l |-> <<>>]
TNum(x) == [t |-> "num", text |-> x, l |-> <<>>]
TList(x) == [t |-> "list", text |-> <<>>, l |-> x]

\* Python truthiness of such a value
TruthyValue(v) ==
    CASE v.t = "str" -> v.text # <<>>
      [] v.t = "num" -> v.text # <<"0">>
      [] v.t = "list" -> v.l # <<>>
      [] OTHER -> FALSE

LowerCase ==
    <<"a", "b", "c", "d", "e", "f", "g", "h", "i", "j", "k", "l", "m",
      "n", "o", "p", "q", "r", "s", "t", "u", "v", "w", "x", "y", "z">>
UpperCase ==
    <<"A", "B", "C", "D", "E", "F", "G", "H", "I", "J", "K", "L", "M",
      "N", "O", "P", "Q", "R", "S", "T", "U", "V", "W", "X", "Y", "Z">>

\* str.lower() and str.upper(), character by character
Lower(text) ==
    [i \in DOMAIN text |->
        IF \E k \in DOMAIN UpperCase : UpperCase[k] = text[i]
            THEN LowerCase[CHOOSE k \in DOMAIN UpperCase : UpperCase[k] = text[i]]
            ELSE text[i]]
Upper(text) ==
    [i \in DOMAIN text |->
        IF \E k \in DOMAIN LowerCase : LowerCase[k] = text[i]
            THEN UpperCase[CHOOSE k \in DOMAIN LowerCase : LowerCase[k] = text[i]]
            ELSE text[i]]

\* enums.ClauseCategory: the values of the closed vocabulary
ClauseCategory ==
    {<<"d", "a", "t", "a", "_", "p", "r", "i", "v", "a", "c", "y">>,
     <<"s", "e", "c", "u", "r", "i", "t", "y">>,
     <<"l", "i", "a", "b", "i", "l", "i", "t", "y">>,
     <<"t", "e", "r", "m", "i", "n", "a", "t", "i", "o", "n">>,
     <<"p", "a", "y", "m", "e", "n", "t">>,
     <<"c", "o", "n", "f", "i", "d", "e", "n", "t", "i", "a", "l", "i", "t", "y">>,
     <<"i", "n", "t", "e", "l", "l", "e", "c", "t", "u", "a", "l", "_", "p", "r", "o", "p", "e", "r", "t", "y">>,
     <<"c", "o", "m", "p", "l", "i", "a", "n", "c", "e">>,
     <<"f", "o", "r", "c", "e", "_", "m", "a", "j", "e", "u", "r", "e">>,
     <<"d", "i", "s", "p", "u", "t", "e", "_", "r", "e", "s", "o", "l", "u", "t", "i", "o", "n">>}

\* The catch-all category "other"
Other == <<"o", "t", "h", "e", "r">>

\* ComplianceAnalyzer._validate_category
ValidateCategoryCaseSensitive(category) ==
    IF ~TruthyValue(category) THEN Other
    ELSE LET cleaned == Replace(CleanText(TRUE, category.text), " ", "_")
         IN IF cleaned \in ClauseCategory THEN cleaned ELSE Other

ValidateCategory(category) ==
    IF ~TruthyValue(category) THEN Other
    ELSE LET cleaned == Replace(Lower(CleanText(TRUE, category.text)), " ", "_")
         IN IF cleaned \in ClauseCategory THEN cleaned ELSE Other

----------------------------------------------------------------------------
(* LLMService.generate: the body of one attempt and the retry decorator *)

\* What self.llm.agenerate does in one attempt
LlmError == [kind |-> "error", text |-> <<>>]
LlmNoGenerations == [kind |-> "no_generations", text |-> <<>>]
LlmBlank == [kind |-> "blank", text |-> <<>>]
LlmText(c) == [kind |-> "text", text |-> <<c>>]

\* The function body, run once per attempt
GenerateBody(prompt_empty, outcome) ==
    IF prompt_empty
        THEN [raised |-> TRUE, exc |-> "LLMServiceError", text |-> <<>>]
    ELSE IF outcome.kind \in {"error", "no_generations", "blank"}
        THEN [raised |-> TRUE, exc |-> "LLMServiceError", text |-> <<>>]
    ELSE [raised |-> FALSE, exc |-> "", text |-> outcome.text]

\* stop_after_attempt(3)
StopAfterAttempt(attempt) == attempt >= MaxAttempts

\* retry=: the decorator names no predicate, so every exception is retried
RetryOn(exc) == TRUE

Max(a, b) == IF a >= b THEN a ELSE b
Min(a, b) == IF a <= b THEN a ELSE b

RECURSIVE Pow2(_)
Pow2(k) == IF k <= 0 THEN 1 ELSE 2 * Pow2(k - 1)

\* wait_exponential(multiplier=1, min=4, max=10) after the given attempt
WaitExponential(attempt) ==
    Max(Max(0, WaitMin), Min(WaitMultiplier * Pow2(attempt - 1), WaitMax))

\* The exception the decorator raises once it stops: reraise is not set,
\* so the last attempt's exception is wrapped in tenacity's RetryError
RetryExhausted(last_exc) == "RetryError"

\* The whole decorated call, given what agenerate does in each attempt
RECURSIVE RetryLoop(_, _, _)
RetryLoop(prompt_empty, outcomes, attempt) ==
    LET r == GenerateBody(prompt_empty, outcomes[attempt]) IN
    IF ~r.raised
        THEN [raised |-> FALSE, exc |-> "", text |-> r.text]
    ELSE IF ~RetryOn(r.exc)
        THEN [raised |-> TRUE, exc |-> r.exc, text |-> <<>>]
    ELSE IF StopAfterAttempt(attempt)
        THEN [raised |-> TRUE, exc |-> RetryExhausted(r.exc), text |-> <<>>]
    ELSE RetryLoop(prompt_empty, outcomes, attempt + 1)

Generate(prompt_empty, outcomes) == RetryLoop(prompt_empty, outcomes, 1)

\* Attempt scripts: k failing attempts, then the completion c
Scripts(C) ==
    {[i \in 1..MaxAttempts |-> IF i <= k THEN LlmError ELSE LlmText(c)] :
        k \in 0..MaxAttempts, c \in C}

\* What generate can hand to a caller that passes a non-empty prompt
GenerateResults(C) == {Generate(FALSE, s) : s \in Scripts(C)}

----------------------------------------------------------------------------
(* Documents and the parser *)

\* An uploaded document: its file name's extension is allowed or not, the
\* backend can read it or not, and text is what the backend extracts
\* (already cleaned by ContractParser._clean_text; "" is whitespace only)
Documents ==
    {[name |-> "a.txt", allowed |-> TRUE, readable |-> TRUE, text |-> "T1"],
     [name |-> "b.txt", allowed |-> TRUE, readable |-> TRUE, text |-> "T2"],
     [name |-> "blank.txt", allowed |-> TRUE, readable |-> TRUE, text |-> ""],
     [name |-> "broken.pdf", allowed |-> TRUE, readable |-> FALSE, text |-> ""],
     [name |-> "run.exe", allowed |-> FALSE, readable |-> FALSE, text |-> ""]}

AllowedDocuments == {d \in Documents : d.allowed}

\* ContractParser.parse: the text, or nothing when FileParsingError is raised
ParseDocument(doc) ==
    IF doc.readable /\ doc.text # "" THEN <<doc.text>> ELSE <<>>

\* ComplianceAnalyzer._get_clause_hash: str(hash(text)), one key per text
ClauseHash(text) ==
    CASE text = "T1" -> "h1"
      [] text = "T2" -> "h2"
      [] OTHER -> "h0"

----------------------------------------------------------------------------
(* Clause extraction: completions and their processing *)

\* One element of the "clauses" array of a completion.  nested holds the
\* objects written inside the element as values of its keys.
CandidateBlank ==
    [is_dict |-> TRUE, text_is_str |-> TRUE, text |-> <<" ", "\n">>,
     primary_category |-> TAbsent, secondary_categories |-> TAbsent,
     obligations |-> TAbsent, deadlines |-> TAbsent, compliance_risks |-> TAbsent,
     nested |-> <<>>]
CandidateClause ==
    [is_dict |-> TRUE, text_is_str |-> TRUE, text |-> <<" ", "a", "\t", " ", "b", " ">>,
     primary_category |-> TStr(<<"S", "e", "c", "u", "r", "i", "t", "y">>),
     secondary_categories |->
         TList(<<TStr(<<"p", "a", "y", "m", "e", "n", "t">>), TStr(<<"b", "o", "g", "u", "s">>)>>),
     obligations |-> TList(<<TStr(<<" ", "a", " ">>), TStr(<<" ">>)>>),
     deadlines |-> TAbsent, compliance_risks |-> TNull, nested |-> <<>>]
CandidateNoText ==
    [is_dict |-> TRUE, text_is_str |-> FALSE, text |-> <<>>,
     primary_category |-> TAbsent, secondary_categories |-> TAbsent,
     obligations |-> TAbsent, deadlines |-> TAbsent, compliance_risks |-> TAbsent,
     nested |-> <<>>]
CandidateNotDict ==
    [is_dict |-> FALSE, text_is_str |-> FALSE, text |-> <<>>,
     primary_category |-> TAbsent, secondary_categories |-> TAbsent,
     obligations |-> TAbsent, deadlines |-> TAbsent, compliance_risks |-> TAbsent,
     nested |-> <<>>]

\* A clause that carries two objects with a text of their own under other keys
CandidateNested ==
    [CandidateClause EXCEPT
        !.nested = <<[CandidateNoText EXCEPT !.text_is_str = TRUE, !.text = <<"c">>],
                     [CandidateNoText EXCEPT !.text_is_str = TRUE, !.text = <<"d">>]>>]

Candidates == {CandidateBlank, CandidateClause, CandidateNoText, CandidateNotDict}

\* A completion of the extraction prompt, described by what the string
\* functions find in it: has_span, a {...} span holding "clauses" or a [...]
\* span exists; parses, json.loads succeeds on the span as it is or after the
\* cleanup of lines 261-264; items, the elements of the clauses array that
\* the model wrote
ExtractionCompletions ==
    {[has_span |-> FALSE, parses |-> FALSE, items |-> <<>>],
     [has_span |-> TRUE, parses |-> FALSE, items |-> <<>>]}
    \cup {[has_span |-> TRUE, parses |-> TRUE, items |-> it] :
            it \in SeqsUpTo(Candidates, MaxItems)}

\* ComplianceAnalyzer._clean_json_response
CleanJsonResponse(completion) ==
    IF completion.has_span THEN <<completion>> ELSE <<>>

\* re.findall(r'\{[^{}]*\}', cleaned) on a span that does not parse, lines
\* 272-280: the objects of the text that hold no object themselves and parse
\* on their own, in the order of the text
RECURSIVE SingleLevelObjects(_)
SingleLevelObjects(items) ==
    IF items = <<>> THEN <<>>
    ELSE (IF ~items[1].is_dict THEN <<>>
          ELSE IF items[1].nested = <<>> THEN <<items[1]>>
          ELSE items[1].nested) \o SingleLevelObjects(Tail(items))

\* ComplianceAnalyzer._parse_json_with_fallbacks
ParseJsonWithFallbacks(cleaned) ==
    IF cleaned.parses THEN <<[clauses |-> cleaned.items]>>
    ELSE LET clauses_content == SingleLevelObjects(cleaned.items) IN
         IF clauses_content # <<>> THEN <<[clauses |-> clauses_content]>> ELSE <<>>

\* The test "if processed_item" of _process_list
NonEmpty(processed_item) == processed_item # <<>>

\* ComplianceAnalyzer._clean_text as the processor of a list item
CleanTextItem(item) == CleanText(item.t = "str", item.text)

\* ComplianceAnalyzer._process_list; processor names the method passed to it
ProcessList(items, processor) ==
    IF ~TruthyValue(items) \/ items.t # "list" THEN <<>>
    ELSE SelectSeq([i \in DOMAIN items.l |->
                       IF processor = "_validate_category"
                          THEN ValidateCategory(items.l[i])
                          ELSE CleanTextItem(items.l[i])], NonEmpty)

\* ComplianceAnalyzer._process_clause; id is the uuid4 drawn for the clause
ProcessClause(clause, id) ==
    IF ~clause.is_dict THEN <<>>
    ELSE LET text == CleanText(clause.text_is_str, clause.text) IN
         IF text = <<>> THEN <<>>
         ELSE <<[id |-> id, text |-> text,
                 primary_category |->
                     ValidateCategory(Get(clause.primary_category, TStr(Other))),
                 secondary_categories |->
                     ProcessList(Get(clause.secondary_categories, TList(<<>>)),
                                 "_validate_category"),
                 obligations |->
                     ProcessList(Get(clause.obligations, TList(<<>>)), "_clean_text"),
                 deadlines |->
                     ProcessList(Get(clause.deadlines, TList(<<>>)), "_clean_text"),
                 compliance_risks |->
                     ProcessList(Get(clause.compliance_risks, TList(<<>>)), "_clean_text")]>>

\* ComplianceAnalyzer._extract_clauses_from_data; ids are drawn from first_id on
RECURSIVE ExtractClausesFromData(_, _)
ExtractClausesFromData(items, first_id) ==
    IF items = <<>> THEN <<>>
    ELSE LET processed == ProcessClause(items[1], first_id) IN
         IF processed = <<>>
             THEN ExtractClausesFromData(Tail(items), first_id)
             ELSE processed \o ExtractClausesFromData(Tail(items), first_id + 1)

\* Variant: an empty clause list is returned instead of raising
ProcessExtractionAllowEmpty(g, first_id) ==
    IF g.raised THEN [raised |-> TRUE, exc |-> "ComplianceError", clauses |-> <<>>]
    ELSE LET cleaned == CleanJsonResponse(g.text[1]) IN
    IF cleaned = <<>> THEN [raised |-> TRUE, exc |-> "ComplianceError", clauses |-> <<>>]
    ELSE LET data == ParseJsonWithFallbacks(cleaned[1]) IN
    IF data = <<>> THEN [raised |-> TRUE, exc |-> "ComplianceError", clauses |-> <<>>]
    ELSE [raised |-> FALSE, exc |-> "",
          clauses |-> ExtractClausesFromData(data[1].clauses, first_id)]

\* The body of extract_clauses after the model call returns g: the clauses,
\* or ComplianceError
ProcessExtraction(g, first_id) ==
    IF g.raised THEN [raised |-> TRUE, exc |-> "ComplianceError", clauses |-> <<>>]
    ELSE LET cleaned == CleanJsonResponse(g.text[1]) IN
    IF cleaned = <<>> THEN [raised |-> TRUE, exc |-> "ComplianceError", clauses |-> <<>>]
    ELSE LET data == ParseJsonWithFallbacks(cleaned[1]) IN
    IF data = <<>> THEN [raised |-> TRUE, exc |-> "ComplianceError", clauses |-> <<>>]
    ELSE LET clauses == ExtractClausesFromData(data[1].clauses, first_id) IN
    IF clauses = <<>> THEN [raised |-> TRUE, exc |-> "ComplianceError", clauses |-> <<>>]
    ELSE [raised |-> FALSE, exc |-> "", clauses |-> clauses]

\* analyze_contract, the conversion of the raw clauses to ClauseAnalysis
ToClauseAnalysis(raw_clauses) ==
    [i \in DOMAIN raw_clauses |->
        [id |-> raw_clauses[i].id, text |-> raw_clauses[i].text,
         primary_category |-> raw_clauses[i].primary_category,
         secondary_categories |-> raw_clauses[i].secondary_categories,
         obligations |-> raw_clauses[i].obligations,
         deadlines |-> raw_clauses[i].deadlines,
         compliance_risks |-> raw_clauses[i].compliance_risks,
         risk_score |-> RiskScore]]

ExtractionResults == GenerateResults(ExtractionCompletions)

----------------------------------------------------------------------------
(* Compliance evaluation of one (clause, regulation) pair *)

\* The JSON object of a completion of the compliance prompt
ObjectFull ==
    [compliant |-> JBool(TRUE), requirements_met |-> JList(<<"r1">>),
     requirements_missing |-> JList(<<>>), risk_level |-> JStr("low"),
     findings |-> JList(<<"f1">>), recommendations |-> JList(<<"a1">>)]
ObjectPartial ==
    [compliant |-> JAbsent, requirements_met |-> JAbsent,
     requirements_missing |-> JList(<<"m1">>), risk_level |-> JStr("Medium "),
     findings |-> JList(<<"f2">>), recommendations |-> JAbsent]
ObjectBadShape ==
    [compliant |-> JBool(TRUE), requirements_met |-> JNull,
     requirements_missing |-> JAbsent, risk_level |-> JStr("critical"),
     findings |-> JStr("none"), recommendations |-> JAbsent]

\* A completion of the compliance prompt, described by what
\* _extract_json_from_response returns for it and what json.loads yields
ComplianceCompletions ==
    {[json |-> "none", obj |-> ObjectPartial],
     [json |-> "array", obj |-> ObjectPartial],
     [json |-> "object", obj |-> ObjectFull],
     [json |-> "object", obj |-> ObjectPartial],
     [json |-> "object", obj |-> ObjectBadShape]}

ComplianceGenerateResults == GenerateResults(ComplianceCompletions)

\* ComplianceAnalyzer._extract_json_from_response
ExtractJsonFromResponse(completion) ==
    IF completion.json = "none" THEN <<>> ELSE <<completion>>

----------------------------------------------------------------------------
(* The text of a completion and the extraction of its JSON *)

\* The text of a completion is a sequence of tokens: the braces and
\* brackets, the members and elements of the JSON the model writes, the words
\* of its prose, the markdown fence markers (three backticks, with or
\* without json, written FENCE-JSON and FENCE) and a non-printable character
\* (the tab).  A member token is a key with a scalar value; a key token is a
\* key whose value, an object or an array, follows.
MemberTokens == {"\"compliant\": true", "\"risk_level\": \"low\""}
KeyTokens == {"\"details\":", "\"findings\":"}
ElementTokens == {"\"f1\""}
FenceTokens == {"FENCE-JSON", "FENCE"}
NonPrintableTokens == {"\t"}

\* json.loads, as a parser of tokens: the position after the value that
\* starts at position i, or 0 when no value starts there
RECURSIVE ParseValue(_, _)
RECURSIVE ParseMembers(_, _)
RECURSIVE ParseElements(_, _)
ParseValue(text, i) ==
    IF i > Len(text) THEN 0
    ELSE IF text[i] = "{" THEN ParseMembers(text, i + 1)
    ELSE IF text[i] = "[" THEN ParseElements(text, i + 1)
    ELSE 0
ParseMembers(text, i) ==
    IF i > Len(text) THEN 0
    ELSE IF text[i] = "}" THEN i + 1
    ELSE IF text[i] \in MemberTokens THEN ParseMembers(text, i + 1)
    ELSE IF text[i] \in KeyTokens
        THEN LET j == ParseValue(text, i + 1) IN
             IF j = 0 THEN 0 ELSE ParseMembers(text, j)
    ELSE 0
ParseElements(text, i) ==
    IF i > Len(text) THEN 0
    ELSE IF text[i] = "]" THEN i + 1
    ELSE IF text[i] \in ElementTokens THEN ParseElements(text, i + 1)
    ELSE IF text[i] \in {"{", "["}
        THEN LET j == ParseValue(text, i) IN
             IF j = 0 THEN 0 ELSE ParseElements(text, j)
    ELSE 0

\* json.loads(text) succeeds: the text is one JSON value.  Two texts of these
\* tokens parse to equal values exactly when they are the same text.
JsonLoads(text) == text # <<>> /\ ParseValue(text, 1) = Len(text) + 1

\* ComplianceAnalyzer._clean_response: the non-printable characters and the
\* fence markers go; the quote literals of line 513 are both U+0022
CleanResponse(response) ==
    IF response = <<>> THEN <<>>
    ELSE Remove(Remove(response, NonPrintableTokens), FenceTokens)

\* re.search(open [\s\S]* close): from the first open to the last close
GreedySpan(response, open, close) ==
    LET opens == {i \in DOMAIN response : response[i] = open}
        first == CHOOSE i \in opens : \A k \in opens : i <= k
        closes == {j \in DOMAIN response : response[j] = close /\ j > first}
        last == CHOOSE j \in closes : \A k \in closes : k <= j
    IN IF opens = {} THEN <<>>
       ELSE IF closes = {} THEN <<>>
       ELSE <<SubSeq(response, first, last)>>

\* re.findall(r'\{[^{}]*\}', response): the spans from a "{" to the next
\* brace when that brace is a "}", in the order of the text
RECURSIVE SingleLevelSpans(_, _)
SingleLevelSpans(response, i) ==
    IF i > Len(response) THEN <<>>
    ELSE IF response[i] # "{" THEN SingleLevelSpans(response, i + 1)
    ELSE LET braces == {j \in DOMAIN response : j > i /\ response[j] \in {"{", "}"}}
             next == CHOOSE j \in braces : \A k \in braces : j <= k
         IN IF braces = {} THEN <<>>
            ELSE IF response[next] = "}"
                THEN <<SubSeq(response, i, next)>> \o SingleLevelSpans(response, next + 1)
                ELSE SingleLevelSpans(response, i + 1)

\* ComplianceAnalyzer._extract_json_from_response on the text of a
\* completion: the string it returns, or nothing for None
ExtractJson(raw) ==
    IF raw = <<>> THEN <<>>
    ELSE LET response == CleanResponse(raw)
             json_match == GreedySpan(response, "{", "}")
             array_match == GreedySpan(response, "[", "]")
             objects == SelectSeq(SingleLevelSpans(response, 1), JsonLoads)
         IN IF json_match # <<>> /\ JsonLoads(json_match[1]) THEN json_match
            ELSE IF array_match # <<>> /\ JsonLoads(array_match[1]) THEN array_match
            ELSE IF objects # <<>> THEN <<objects[1]>>
            ELSE <<>>

\* The positions of the text of an object that lie directly inside it
TopLevel(text) ==
    {i \in DOMAIN text :
        Cardinality({k \in 1..(i - 1) : text[k] \in {"{", "["}})
            - Cardinality({k \in 1..(i - 1) : text[k] \in {"}", "]"}}) = 1}

\* json.loads of the text of an object: the values under the keys that the
\* evaluator reads
ObjectOf(text) ==
    LET top == TopLevel(text)
        findings == {i \in top : text[i] = "\"findings\":" /\ text[i + 1] = "["}
    IN [compliant |->
            IF \E i \in top : text[i] = "\"compliant\": true" THEN JBool(TRUE) ELSE JAbsent,
        requirements_met |-> JAbsent,
        requirements_missing |-> JAbsent,
        risk_level |->
            IF \E i \in top : text[i] = "\"risk_level\": \"low\"" THEN JStr("low") ELSE JAbsent,
        findings |->
            IF findings = {} THEN JAbsent
            ELSE LET i == CHOOSE k \in findings : TRUE
                     end == ParseValue(text, i + 1)
                 IN JList([k \in 1..Cardinality({j \in (i + 2)..(end - 2) :
                                                   text[j] \in ElementTokens}) |-> "f1"]),
        recommendations |-> JAbsent]

\* The description of a completion given as text: what
\* _extract_json_from_response returns for it and what json.loads yields
DescribeCompletion(raw) ==
    LET found == ExtractJson(raw) IN
    IF found = <<>> THEN [json |-> "none", obj |-> ObjectOf(<<>>)]
    ELSE IF found[1][1] = "[" THEN [json |-> "array", obj |-> ObjectOf(<<>>)]
    ELSE [json |-> "object", obj |-> ObjectOf(found[1])]

\* The characters of the strings that the completions of the model carry
\* under risk_level
Chars(s) ==
    CASE s = "high" -> <<"h", "i", "g", "h">>
      [] s = "medium" -> <<"m", "e", "d", "i", "u", "m">>
      [] s = "low" -> <<"l", "o", "w">>
      [] s = "Medium " -> <<"M", "e", "d", "i", "u", "m", " ">>
      [] s = "critical" -> <<"c", "r", "i", "t", "i", "c", "a", "l">>

\* The value of a key of the parsed object, with the characters of a string
AsText(v) ==
    IF v.t = "str" THEN TStr(Chars(v.s)) ELSE [t |-> v.t, text |-> <<>>, l |-> <<>>]

\* valid_levels of line 440
ValidLevels == {"high", "medium", "low"}

\* ComplianceAnalyzer._validate_risk_level
ValidateRiskLevelNoStrip(risk_level) ==
    IF risk_level.t # "str" THEN "high"
    ELSE LET level == Lower(risk_level.text) IN
         IF \E l \in ValidLevels : Chars(l) = level
             THEN CHOOSE l \in ValidLevels : Chars(l) = level
             ELSE "high"

ValidateRiskLevel(risk_level) ==
    IF risk_level.t # "str" THEN "high"
    ELSE LET level == Strip(Lower(risk_level.text)) IN
         IF \E l \in ValidLevels : Chars(l) = level
             THEN CHOOSE l \in ValidLevels : Chars(l) = level
             ELSE "high"

\* ComplianceAnalyzer._get_default_result
GetDefaultResult ==
    [compliant |-> JBool(FALSE), requirements_met |-> JList(<<>>),
     requirements_missing |-> JList(<<"Analysis failed">>), risk_level |-> JStr("high"),
     findings |-> JList(<<"Unable to analyze clause">>),
     recommendations |-> JList(<<"Perform manual review">>)]

\* ComplianceAnalyzer._analyze_single_regulation after the model call
\* returns g; every exception ends in the default result
AnalyzeSingleRegulation(g) ==
    IF g.raised THEN GetDefaultResult
    ELSE LET cleaned_response == ExtractJsonFromResponse(g.text[1]) IN
    IF cleaned_response = <<>> THEN GetDefaultResult
    ELSE IF cleaned_response[1].json # "object" THEN GetDefaultResult
    ELSE LET result == cleaned_response[1].obj IN
        [compliant |-> JBool(Truthy(Get(result.compliant, JBool(FALSE)))),
         requirements_met |-> Get(result.requirements_met, JList(<<>>)),
         requirements_missing |-> Get(result.requirements_missing, JList(<<>>)),
         risk_level |->
             JStr(ValidateRiskLevel(AsText(Get(result.risk_level, JStr("high"))))),
         findings |-> Get(result.findings, JList(<<>>)),
         recommendations |-> Get(result.recommendations, JList(<<>>))]

\* schemas.ComplianceResult(): the field defaults
ComplianceResultDefaults ==
    [compliant |-> FALSE, requirements_met |-> <<>>, requirements_missing |-> <<>>,
     risk_level |-> "high", findings |-> <<>>, recommendations |-> <<>>]

\* schemas.ComplianceResult(**fields): pydantic validates the field types
ComplianceResultModel(d) ==
    IF /\ d.compliant.t = "bool"
       /\ d.requirements_met.t = "list"
       /\ d.requirements_missing.t = "list"
       /\ d.risk_level.t = "str"
       /\ d.findings.t = "list"
       /\ d.recommendations.t = "list"
    THEN [raised |-> FALSE,
          value |-> [compliant |-> d.compliant.b,
                     requirements_met |-> d.requirements_met.l,
                     requirements_missing |-> d.requirements_missing.l,
                     risk_level |-> d.risk_level.s,
                     findings |-> d.findings.l,
                     recommendations |-> d.recommendations.l]]
    ELSE [raised |-> TRUE, value |-> ComplianceResultDefaults]

\* ComplianceAnalyzer.analyze_compliance called with the one-element list
\* [regulation]: a dict keyed by the regulation's value
AnalyzeCompliance(g, regulation) ==
    [r \in {regulation} |-> AnalyzeSingleRegulation(g)]

\* Variant: the loop body without the handler of line 81
EvaluatePairUnhandled(g, regulation) ==
    LET reg_result == AnalyzeCompliance(g, regulation)
        reg_data == reg_result[regulation]
        model == ComplianceResultModel(reg_data)
    IN IF model.raised
          THEN [raised |-> TRUE, value |-> ComplianceResultDefaults]
          ELSE [raised |-> FALSE, value |-> model.value]

\* analyze_contract, the body of the loop over regulations for one pair
\* after the model call returns g: lines 64-80 and the handler of line 81.
\* raised tells whether an exception leaves the loop body.
EvaluatePair(g, regulation) ==
    LET reg_result == AnalyzeCompliance(g, regulation)
        reg_data == reg_result[regulation]
        model == ComplianceResultModel(reg_data)
    IN IF model.raised
          THEN [raised |-> FALSE, value |-> ComplianceResultDefaults]
          ELSE [raised |-> FALSE, value |-> model.value]

----------------------------------------------------------------------------
(* Python dicts *)

EmptyDict == [k \in {} |-> 0]

Put(d, k, v) == [x \in (DOMAIN d) \cup {k} |-> IF x = k THEN v ELSE d[x]]

----------------------------------------------------------------------------
(* Report generation *)

\* The (clause id, regulation) pairs of compliance_results
Pairs(compliance_results) ==
    {p \in (DOMAIN compliance_results) \X Regulations :
        p[2] \in DOMAIN compliance_results[p[1]]}

\* BaseModel.model_dump of a ComplianceResult: the dict that the report
\* generator reads with dict.get
ModelDump(cr) ==
    [compliant |-> JBool(cr.compliant),
     requirements_met |-> JList(cr.requirements_met),
     requirements_missing |-> JList(cr.requirements_missing),
     risk_level |-> JStr(cr.risk_level),
     findings |-> JList(cr.findings),
     recommendations |-> JList(cr.recommendations)]

\* analyze_contract, lines 91-97: the compliance results as dicts
DumpResults(compliance_results) ==
    [k \in DOMAIN compliance_results |->
        [reg \in DOMAIN compliance_results[k] |-> ModelDump(compliance_results[k][reg])]]

\* datetime.now().isoformat()
Now == "now"

\* ReportGenerator._calculate_overall_compliance counting the clauses that
\* have a compliant pair instead of the pairs
CalculateOverallComplianceByClause(compliance_results) ==
    LET total == Cardinality(DOMAIN compliance_results)
        compliant == Cardinality({k \in DOMAIN compliance_results :
                        \E p \in Pairs(compliance_results) :
                            /\ p[1] = k
                            /\ Truthy(Get(compliance_results[p[1]][p[2]].compliant,
                                          JBool(FALSE)))})
    IN [compliant_clauses |-> compliant,
        non_compliant_clauses |-> total - compliant,
        compliance_percentage_x100 |->
            IF total > 0 THEN (2 * compliant * 10000 + total) \div (2 * total) ELSE 0]

\* ReportGenerator._calculate_overall_compliance; the percentage is kept in
\* hundredths, as round(..., 2) leaves it
CalculateOverallCompliance(compliance_results) ==
    LET total == Cardinality(Pairs(compliance_results))
        compliant == Cardinality({p \in Pairs(compliance_results) :
                                    Truthy(Get(compliance_results[p[1]][p[2]].compliant,
                                               JBool(FALSE)))})
    IN [compliant_clauses |-> compliant,
        non_compliant_clauses |-> total - compliant,
        compliance_percentage_x100 |->
            IF total > 0 THEN (2 * compliant * 10000 + total) \div (2 * total) ELSE 0]

\* str.lower on the risk levels of the results
LowerStr(s) ==
    CASE s = "HIGH" -> "high"
      [] s = "Medium" -> "medium"
      [] OTHER -> s

\* ReportGenerator._calculate_risk_distribution: .lower() raises on a value
\* that is not a string; a level outside the three gets a key of its own
CalculateRiskDistribution(compliance_results) ==
    LET level(p) == Get(compliance_results[p[1]][p[2]].risk_level, JStr("high"))
        pairs == Pairs(compliance_results)
    IN IF \E p \in pairs : level(p).t # "str"
       THEN [raised |-> TRUE, exc |-> "AttributeError", value |-> <<>>]
       ELSE [raised |-> FALSE, exc |-> "",
             value |-> <<[l \in {"high", "medium", "low"}
                               \cup {LowerStr(level(p).s) : p \in pairs} |->
                           Cardinality({p \in pairs : LowerStr(level(p).s) = l})]>>]

\* clause.get("primary_category", "other")
CategoryOf(clause) ==
    IF "primary_category" \in DOMAIN clause THEN clause.primary_category ELSE Other

\* ReportGenerator._analyze_categories with a sort that puts, among
\* categories of equal count, the one met last first
AnalyzeCategoriesLastFirst(clauses) ==
    LET categories == {CategoryOf(clauses[i]) : i \in DOMAIN clauses}
        distribution ==
            [c \in categories |->
                Cardinality({i \in DOMAIN clauses : CategoryOf(clauses[i]) = c})]
        first(c) == CHOOSE i \in DOMAIN clauses :
                        /\ CategoryOf(clauses[i]) = c
                        /\ \A j \in 1..(i - 1) : CategoryOf(clauses[j]) # c
        position(c) ==
            1 + Cardinality({d \in categories :
                                \/ distribution[d] > distribution[c]
                                \/ /\ distribution[d] = distribution[c]
                                   /\ first(d) > first(c)})
        top == IF Cardinality(categories) < 3 THEN Cardinality(categories) ELSE 3
    IN [distribution |-> distribution,
        primary_concerns |->
            [k \in 1..top |->
                LET c == CHOOSE d \in categories : position(d) = k
                IN <<c, distribution[c]>>]]

\* ReportGenerator._analyze_categories: the count of every primary category
\* and the three most frequent ones; sorted is stable, so that categories of
\* equal count keep the order of their first clause
AnalyzeCategories(clauses) ==
    LET categories == {CategoryOf(clauses[i]) : i \in DOMAIN clauses}
        distribution ==
            [c \in categories |->
                Cardinality({i \in DOMAIN clauses : CategoryOf(clauses[i]) = c})]
        first(c) == CHOOSE i \in DOMAIN clauses :
                        /\ CategoryOf(clauses[i]) = c
                        /\ \A j \in 1..(i - 1) : CategoryOf(clauses[j]) # c
        position(c) ==
            1 + Cardinality({d \in categories :
                                \/ distribution[d] > distribution[c]
                                \/ /\ distribution[d] = distribution[c]
                                   /\ first(d) < first(c)})
        top == IF Cardinality(categories) < 3 THEN Cardinality(categories) ELSE 3
    IN [distribution |-> distribution,
        primary_concerns |->
            [k \in 1..top |->
                LET c == CHOOSE d \in categories : position(d) = k
                IN <<c, distribution[c]>>]]

\* The items that list.extend adds for the value v: extend raises on a value
\* that is not iterable and adds the characters of a string
Extended(v) ==
    CASE v.t = "list" -> v.l
      [] v.t = "str" -> Chars(v.s)
      [] OTHER -> <<>>

\* The list built by extending it with every value of values (a function on
\* the pairs), kept as the bag of its items: every item with the number of
\* times the list holds it
Collected(values) ==
    LET places == UNION {{<<p, i>> : i \in DOMAIN Extended(values[p])} : p \in DOMAIN values}
        item(x) == Extended(values[x[1]])[x[2]]
    IN [e \in {item(x) : x \in places} |-> Cardinality({x \in places : item(x) = e})]

\* items[:n] without set(): every item of the list stays as often as the
\* list holds it
LimitKeepAll(items, n) == {items}

\* list(set(items))[:n]: the distinct items in the order of the set, which
\* the hashing of strings leaves open; the result is kept as a bag, and every
\* choice of n distinct items is possible
Limit(items, n) ==
    IF Cardinality(DOMAIN items) <= n THEN {[e \in DOMAIN items |-> 1]}
    ELSE {[e \in kept |-> 1] : kept \in {k \in SUBSET DOMAIN items : Cardinality(k) = n}}

\* The pairs with risk_level == "high"
HighRisk(compliance_results) ==
    {p \in Pairs(compliance_results) :
        compliance_results[p[1]][p[2]].risk_level = JStr("high")}

\* ReportGenerator._extract_critical_findings: the possible results
ExtractCriticalFindings(compliance_results) ==
    LET high == HighRisk(compliance_results)
        findings == [p \in high |->
                        Get(compliance_results[p[1]][p[2]].findings, JList(<<>>))]
    IN IF \E p \in high : findings[p].t \notin {"list", "str"}
       THEN [raised |-> TRUE, exc |-> "TypeError", value |-> {}]
       ELSE [raised |-> FALSE, exc |-> "", value |-> Limit(Collected(findings), 5)]

\* ReportGenerator._extract_key_actions: the possible results
ExtractKeyActions(compliance_results) ==
    LET high == HighRisk(compliance_results)
        recommendations == [p \in high |->
                               Get(compliance_results[p[1]][p[2]].recommendations,
                                   JList(<<>>))]
    IN IF \E p \in high : recommendations[p].t \notin {"list", "str"}
       THEN [raised |-> TRUE, exc |-> "TypeError", value |-> {}]
       ELSE [raised |-> FALSE, exc |-> "", value |-> Limit(Collected(recommendations), 5)]

\* The keys of the statistics of a summary
StatisticsKeys ==
    {"overall_compliance", "risk_distribution", "category_analysis",
     "critical_findings", "key_actions_required"}

\* ReportGenerator._generate_summary without its exception handler
GenerateSummaryNoHandler(clauses, compliance_results, regulations) ==
    LET risk == CalculateRiskDistribution(compliance_results)
        critical == ExtractCriticalFindings(compliance_results)
        actions == ExtractKeyActions(compliance_results)
    IN IF risk.raised \/ critical.raised \/ actions.raised
       THEN {[raised |-> TRUE, value |-> <<>>]}
       ELSE {[raised |-> FALSE,
              value |-> <<[total_clauses |-> Len(clauses),
                           analyzed_regulations |-> regulations,
                           timestamp |-> Now,
                           overall_compliance |-> CalculateOverallCompliance(compliance_results),
                           risk_distribution |-> risk.value[1],
                           category_analysis |-> AnalyzeCategories(clauses),
                           critical_findings |-> f,
                           key_actions_required |-> a]>>] :
                f \in critical.value, a \in actions.value}

\* ReportGenerator._generate_summary: the possible results.  An exception of
\* a statistic is caught and the summary keeps the counts, the timestamp and
\* the message of the exception.
GenerateSummary(clauses, compliance_results, regulations) ==
    LET risk == CalculateRiskDistribution(compliance_results)
        critical == ExtractCriticalFindings(compliance_results)
        actions == ExtractKeyActions(compliance_results)
    IN IF risk.raised \/ critical.raised \/ actions.raised
       THEN {[raised |-> FALSE,
              value |-> <<[total_clauses |-> Len(clauses),
                           analyzed_regulations |-> regulations,
                           timestamp |-> Now,
                           error |-> IF risk.raised THEN risk.exc
                                     ELSE IF critical.raised THEN critical.exc
                                     ELSE actions.exc]>>]}
       ELSE {[raised |-> FALSE,
              value |-> <<[total_clauses |-> Len(clauses),
                           analyzed_regulations |-> regulations,
                           timestamp |-> Now,
                           overall_compliance |-> CalculateOverallCompliance(compliance_results),
                           risk_distribution |-> risk.value[1],
                           category_analysis |-> AnalyzeCategories(clauses),
                           critical_findings |-> f,
                           key_actions_required |-> a]>>] :
                f \in critical.value, a \in actions.value}

\* ReportGenerator.generate_report: the possible results; an exception that
\* leaves _generate_summary becomes ReportGenerationError
GenerateReport(file_path, clauses, compliance_results, regulations) ==
    {IF summary.raised
        THEN [raised |-> TRUE, exc |-> "ReportGenerationError", value |-> <<>>]
        ELSE [raised |-> FALSE, exc |-> "",
              value |-> <<[file_name |-> file_path,
                           analysis_timestamp |-> Now,
                           regulations |-> regulations,
                           clauses |-> clauses,
                           compliance_results |-> compliance_results,
                           summary |-> summary.value[1]]>>] :
        summary \in GenerateSummary(clauses, compliance_results, regulations)}

\* schemas.AnalysisReport as analyze_contract builds and returns it
AnalysisReport(file_path, regulations, clauses, compliance_results, summary) ==
    [file_name |-> file_path,
     analysis_timestamp |-> Now,
     regulations |-> regulations,
     clauses |-> clauses,
     compliance_results |-> compliance_results,
     summary |-> summary]

----------------------------------------------------------------------------
(* One analysis: ContractAnalyzer.analyze_contract as a coroutine *)

IdleTask ==
    [phase |-> "Idle", analyzer |-> 0, doc |-> <<>>, regulations |-> <<>>,
     contract_text |-> "", clauses |-> <<>>, ci |-> 1, ri |-> 1,
     clause_results |-> EmptyDict, compliance_results |-> EmptyDict,
     summary |-> <<>>, report |-> <<>>, error |-> "",
     calls |-> <<>>, extract_resp |-> <<>>, pair_resp |-> EmptyDict]

\* The calls field logs the generate calls of the analysis in order;
\* extract_resp and pair_resp record what generate handed back

ExtractionCall == [kind |-> "extraction", ci |-> 0, ri |-> 0]
ComplianceCall(ci, ri) == [kind |-> "compliance", ci |-> ci, ri |-> ri]

\* Who holds the event loop when analyze_contract ends: the route handler
\* that awaits it goes on without giving the loop up; a coroutine run on its
\* own frees the loop
Release(t) == IF http[t].state = "analyzing" THEN t ELSE 0

\* analyze_contract, line 113: any exception becomes AnalysisError
Fail(t) ==
    /\ task' = [task EXCEPT ![t].phase = "Failed", ![t].error = "AnalysisError"]
    /\ running' = Release(t)

\* The coroutine is created on analyzer a for document doc and starts to run
StartAnalysis(t, a, doc, regs) ==
    /\ task[t].phase = "Idle"
    /\ running = 0
    /\ task' = [task EXCEPT ![t] =
                  [IdleTask EXCEPT !.phase = "Received", !.analyzer = a,
                                   !.doc = <<doc>>, !.regulations = regs]]
    /\ running' = t

\* analyze_contract, line 28: self.parser.parse(file_path)
Parse(t) ==
    /\ task[t].phase = "Received"
    /\ running = t
    /\ LET text == ParseDocument(task[t].doc[1]) IN
       IF text = <<>>
           THEN Fail(t)
           ELSE /\ task' = [task EXCEPT ![t].phase = "Parsed",
                                        ![t].contract_text = text[1]]
                /\ UNCHANGED running
    /\ UNCHANGED <<clause_cache, next_id, gen, http, fs, call>>

\* extract_clauses, lines 93-101: the cache lookup, then the model call
ExtractClausesBegin(t) ==
    /\ task[t].phase = "Parsed"
    /\ running = t
    /\ LET cache_key == ClauseHash(task[t].contract_text)
           cache == clause_cache[task[t].analyzer]
       IN IF cache_key \in DOMAIN cache
              THEN /\ task' = [task EXCEPT ![t].phase = "ClausesExtracted",
                                  ![t].clauses = ToClauseAnalysis(cache[cache_key])]
                   /\ UNCHANGED running
              ELSE /\ task' = [task EXCEPT ![t].phase = "AwaitExtraction",
                                  ![t].calls = Append(@, ExtractionCall)]
                   /\ running' = 0
    /\ UNCHANGED <<clause_cache, next_id, gen, http, fs, call>>

\* extract_clauses, line 119: self._clause_cache[cache_key] = clauses
CacheStore(cache, cache_key, clauses) == Put(cache, cache_key, clauses)

\* The elements of the clauses array in the completion that generate returns
ReportedElements(g) ==
    IF g.raised \/ g.text = <<>> THEN 0 ELSE Len(g.text[1].items)

\* extract_clauses, lines 103-125, resumed with generate's result, and
\* analyze_contract, lines 33-46
ExtractClausesEnd(t, results) ==
    /\ task[t].phase = "AwaitExtraction"
    /\ running = 0
    \* the completions drawn keep the reported elements, and with them the
    \* clauses, within MaxPairs pairs
    /\ \E g \in results :
        LET extraction == ProcessExtraction(g, next_id)
            a == task[t].analyzer
            cache_key == ClauseHash(task[t].contract_text)
        IN /\ ReportedElements(g) * Len(task[t].regulations) <= MaxPairs
           /\ IF extraction.raised
               THEN /\ task' = [task EXCEPT ![t].phase = "Failed",
                                   ![t].error = "AnalysisError",
                                   ![t].extract_resp = <<g>>]
                    /\ running' = Release(t)
                    /\ UNCHANGED <<clause_cache, next_id>>
               ELSE /\ clause_cache' = [clause_cache EXCEPT ![a] =
                            CacheStore(@, cache_key, extraction.clauses)]
                    /\ next_id' = next_id + Len(extraction.clauses)
                    /\ task' = [task EXCEPT ![t].phase = "ClausesExtracted",
                                   ![t].clauses = ToClauseAnalysis(extraction.clauses),
                                   ![t].extract_resp = <<g>>]
                    /\ running' = t
    /\ UNCHANGED <<gen, http, fs, call>>

\* compliance.py line 170, reached from analyzer.py line 64: the model call
\* for clause ci and the regulation at position ri
PairBegin(t) ==
    /\ task[t].phase = "ClausesExtracted"
    /\ running = t
    /\ task[t].ci <= Len(task[t].clauses)
    /\ task[t].ri <= Len(task[t].regulations)
    /\ task' = [task EXCEPT ![t].phase = "AwaitCompliance",
                   ![t].calls = Append(@, ComplianceCall(task[t].ci, task[t].ri))]
    /\ running' = 0
    /\ UNCHANGED <<clause_cache, next_id, gen, http, fs, call>>

\* Variant: an absorbed failure ends the loop over the regulations
NextRegulationBreak(ri, absorbed, n_regs) == IF absorbed THEN n_regs + 1 ELSE ri + 1

\* Variant: the loop over the regulations ends with the first regulation
\* that could be evaluated
NextRegulationUntilEvaluated(ri, absorbed, n_regs) ==
    IF absorbed THEN ri + 1 ELSE n_regs + 1

\* analyze_contract, line 52: the loop goes on to the next regulation
\* whatever the evaluation of this one gave
NextRegulation(ri, absorbed, n_regs) == ri + 1

\* The loop body resumed with generate's result
PairEnd(t, results) ==
    /\ task[t].phase = "AwaitCompliance"
    /\ running = 0
    /\ \E g \in results :
        LET tk == task[t]
            regulation == tk.regulations[tk.ri]
            out == EvaluatePair(g, regulation)
            reg_data == AnalyzeSingleRegulation(g)
            absorbed == reg_data = GetDefaultResult
                        \/ ComplianceResultModel(reg_data).raised
        IN IF out.raised
               THEN /\ task' = [task EXCEPT ![t].phase = "Failed",
                                   ![t].error = "AnalysisError",
                                   ![t].pair_resp = Put(@, <<tk.ci, tk.ri>>, g)]
                    /\ running' = Release(t)
               ELSE /\ task' = [task EXCEPT ![t].phase = "ClausesExtracted",
                                   ![t].clause_results = Put(@, regulation, out.value),
                                   ![t].ri = NextRegulation(tk.ri, absorbed,
                                                            Len(tk.regulations)),
                                   ![t].pair_resp = Put(@, <<tk.ci, tk.ri>>, g)]
                    /\ running' = t
    /\ UNCHANGED <<clause_cache, next_id, gen, http, fs, call>>

\* Variant: a clause without results gets no entry
StoreClauseResultsIfAny(compliance_results, clause, clause_results) ==
    IF clause_results = EmptyDict
        THEN compliance_results
        ELSE Put(compliance_results, clause.id, clause_results)

\* analyze_contract, line 85: compliance_results[clause.id] = clause_results
StoreClauseResults(compliance_results, clause, clause_results) ==
    Put(compliance_results, clause.id, clause_results)

\* The end of the inner loop for clause ci
ClauseEnd(t) ==
    /\ task[t].phase = "ClausesExtracted"
    /\ running = t
    /\ task[t].ci <= Len(task[t].clauses)
    /\ task[t].ri > Len(task[t].regulations)
    /\ task' = [task EXCEPT
                   ![t].compliance_results =
                       StoreClauseResults(@, task[t].clauses[task[t].ci],
                                          task[t].clause_results),
                   ![t].clause_results = EmptyDict,
                   ![t].ci = @ + 1,
                   ![t].ri = 1]
    /\ UNCHANGED <<clause_cache, next_id, running, gen, http, fs, call>>

\* The end of the loop over the clauses
EvaluationEnd(t) ==
    /\ task[t].phase = "ClausesExtracted"
    /\ running = t
    /\ task[t].ci > Len(task[t].clauses)
    /\ task' = [task EXCEPT ![t].phase = "ComplianceEvaluated"]
    /\ UNCHANGED <<clause_cache, next_id, running, gen, http, fs, call>>

\* analyze_contract, lines 88-99: report_generator.generate_report on the
\* dumped clauses and results; its exception ends the analysis (line 113)
Summarize(t) ==
    /\ task[t].phase = "ComplianceEvaluated"
    /\ running = t
    /\ \E report \in GenerateReport(task[t].doc[1].name, task[t].clauses,
                                    DumpResults(task[t].compliance_results),
                                    task[t].regulations) :
          IF report.raised
             THEN Fail(t)
             ELSE /\ task' = [task EXCEPT ![t].phase = "Summarized",
                                          ![t].summary = report.value]
                  /\ UNCHANGED running
    /\ UNCHANGED <<clause_cache, next_id, gen, http, fs, call>>

\* analyze_contract, lines 102-111: the report is built and returned
Report(t) ==
    /\ task[t].phase = "Summarized"
    /\ running = t
    /\ task' = [task EXCEPT ![t].phase = "Reported",
                   ![t].report = <<AnalysisReport(task[t].doc[1].name,
                                                 task[t].regulations, task[t].clauses,
                                                 task[t].compliance_results,
                                                 task[t].summary[1])>>]
    /\ running' = Release(t)
    /\ UNCHANGED <<clause_cache, next_id, gen, http, fs, call>>

----------------------------------------------------------------------------
(* Specification of one analysis on its own analyzer *)

IdleGen ==
    [state |-> "idle", prompt_empty |-> FALSE, attempt |-> 0, waits |-> <<>>,
     outcomes |-> <<>>, exc |-> "", text |-> <<>>, calls |-> 0]

IdleRequest ==
    [state |-> "idle", kind |-> "", files |-> <<>>, saved |-> 0, status |-> 0,
     reports |-> <<>>, error |-> ""]

\* No function is being called on its own
NoCall == [fn |-> "", state |-> "idle"]

\* The service after start-up: no request, no analysis, no model call
InitService ==
    /\ task = [t \in Tasks |-> IdleTask]
    /\ clause_cache = [a \in Analyzers |-> EmptyDict]
    /\ next_id = 1
    /\ running = 0
    /\ gen = IdleGen
    /\ http = [r \in Requests |-> IdleRequest]
    /\ fs = [dir |-> FALSE, files |-> {}]

Init ==
    /\ InitService
    /\ call = NoCall

\* ContractAnalyzer(llm_service).analyze_contract(file_path, regulations)
AnalyzeContract(t) ==
    /\ \E doc \in AllowedDocuments, regs \in RegLists : StartAnalysis(t, t, doc, regs)
    /\ UNCHANGED <<clause_cache, next_id, gen, http, fs, call>>

Next ==
    \/ AnalyzeContract(1)
    \/ Parse(1)
    \/ ExtractClausesBegin(1)
    \/ ExtractClausesEnd(1, ExtractionResults)
    \/ PairBegin(1)
    \/ PairEnd(1, ComplianceGenerateResults)
    \/ ClauseEnd(1)
    \/ EvaluationEnd(1)
    \/ Summarize(1)
    \/ Report(1)

Spec == Init /\ [][Next]_vars

----------------------------------------------------------------------------
(* Properties of one analysis *)

AfterExtraction ==
    {"ClausesExtracted", "AwaitCompliance", "ComplianceEvaluated", "Summarized",
     "Reported"}

\* The last position of the regulation at position ri in the requested list
LastPosition(regs, ri) ==
    CHOOSE j \in DOMAIN regs :
        /\ regs[j] = regs[ri]
        /\ \A k \in DOMAIN regs : regs[k] = regs[ri] => k <= j

\* The number of compliance calls logged for clause ci and position ri
CallsFor(tk, ci, ri) ==
    Cardinality({i \in DOMAIN tk.calls : tk.calls[i] = ComplianceCall(ci, ri)})

\* The evaluation of the pair failed inside the evaluator: the model call
\* raised, or the completion holds no JSON object
EvaluatorFailure(g) == g.raised \/ g.text[1].json # "object"

\* C1: isolation.  A failed evaluation of one pair never surfaces as an
\* exception of the analysis, every pair of the analysis is still evaluated
\* with exactly one model call, and the result reported for a pair is the
\* result of that pair's own completion, whatever happened to the others.
C1_Isolation ==
    \A t \in Tasks :
        LET tk == task[t] IN
        /\ (\E p \in DOMAIN tk.pair_resp : EvaluatorFailure(tk.pair_resp[p]))
              => tk.phase # "Failed" /\ tk.error = ""
        /\ tk.phase = "Reported" =>
              /\ \A ci \in DOMAIN tk.clauses : \A ri \in DOMAIN tk.regulations :
                    /\ <<ci, ri>> \in DOMAIN tk.pair_resp
                    /\ CallsFor(tk, ci, ri) = 1
              /\ \A ci \in DOMAIN tk.clauses : \A ri \in DOMAIN tk.regulations :
                    LET reg == tk.regulations[ri]
                        last == LastPosition(tk.regulations, ri)
                        id == tk.clauses[ci].id
                    IN /\ id \in DOMAIN tk.report[1].compliance_results
                       /\ reg \in DOMAIN tk.report[1].compliance_results[id]
                       /\ tk.report[1].compliance_results[id][reg]
                             = EvaluatePair(tk.pair_resp[<<ci, last>>], reg).value

\* A report in which one regulation failed for a clause at the transport
\* layer and another regulation of the same clause was judged compliant
C1_Witness ==
    \E t \in Tasks :
        LET tk == task[t] IN
        /\ tk.phase = "Reported"
        /\ Len(tk.clauses) = 2
        /\ \E ci \in DOMAIN tk.clauses : \E ri, rj \in DOMAIN tk.regulations :
            /\ tk.regulations[ri] # tk.regulations[rj]
            /\ tk.pair_resp[<<ci, ri>>].raised
            /\ tk.report[1].compliance_results[tk.clauses[ci].id][tk.regulations[rj]].compliant

\* The allowed moves of the analysis once the clauses are extracted
ForwardStep(from, to) ==
    \/ to = from
    \/ from = "ClausesExtracted" /\ to \in {"AwaitCompliance", "ComplianceEvaluated"}
    \/ from = "AwaitCompliance" /\ to = "ClausesExtracted"
    \/ from = "ComplianceEvaluated" /\ to = "Summarized"
    \/ from = "Summarized" /\ to = "Reported"

\* How far the analysis has come: the clause, the regulation, the phase
PhaseRank(phase) ==
    CASE phase = "ClausesExtracted" -> 0
      [] phase = "AwaitCompliance" -> 1
      [] phase = "ComplianceEvaluated" -> 2
      [] phase = "Summarized" -> 3
      [] OTHER -> 4

Progress(tk) ==
    IF tk.phase \in {"ClausesExtracted", "AwaitCompliance"}
        THEN (tk.ci * (Len(tk.regulations) + 2) + tk.ri) * 2 + PhaseRank(tk.phase)
        ELSE ((Len(tk.clauses) + 2) * (Len(tk.regulations) + 2)) * 2 + PhaseRank(tk.phase)

\* The analysis of task t can take a step
CanStep(t) ==
    \/ ENABLED PairBegin(t)
    \/ ENABLED PairEnd(t, ComplianceGenerateResults)
    \/ ENABLED ClauseEnd(t)
    \/ ENABLED EvaluationEnd(t)
    \/ ENABLED Summarize(t)
    \/ ENABLED Report(t)

\* C2: once the clauses are extracted the analysis never fails: every step
\* it takes moves it forward through ComplianceEvaluated and Summarized, it
\* can always take a step until it is Reported, and Reported carries the
\* report.
C2_NoFailureAfterExtraction ==
    /\ [][\A t \in Tasks :
            (task[t].phase \in AfterExtraction /\ task'[t] # task[t]) =>
                /\ ForwardStep(task[t].phase, task'[t].phase)
                /\ Progress(task'[t]) > Progress(task[t])
                /\ task'[t].error = ""
                /\ task'[t].phase = "Reported" => task'[t].report # <<>>]_vars
    /\ [](\A t \in Tasks :
            (task[t].phase \in AfterExtraction \ {"Reported"} /\ running \in {0, t})
                => CanStep(t))

\* A report made although one model call raised and another completion had
\* wrongly shaped fields
C2_Witness ==
    \E t \in Tasks :
        LET tk == task[t] IN
        /\ tk.phase = "Reported"
        /\ tk.report # <<>>
        /\ \E p, q \in DOMAIN tk.pair_resp :
            /\ tk.pair_resp[p].raised
            /\ ~tk.pair_resp[q].raised
            /\ tk.pair_resp[q].text[1].json = "object"
            /\ tk.pair_resp[q].text[1].obj = ObjectBadShape

IsComplianceResult(r) ==
    /\ DOMAIN r = {"compliant", "requirements_met", "requirements_missing",
                   "risk_level", "findings", "recommendations"}
    /\ r.compliant \in BOOLEAN
    /\ r.risk_level \in {"high", "medium", "low"}

\* C3: in a returned report the keys of compliance_results are clause ids
\* of the report, every clause has an entry, and the entry holds a
\* ComplianceResult for every requested regulation.
C3_ResultsCoverClauses ==
    \A t \in Tasks :
        task[t].report # <<>> =>
            LET rep == task[t].report[1]
                ids == {rep.clauses[i].id : i \in DOMAIN rep.clauses}
            IN /\ DOMAIN rep.compliance_results \subseteq ids
               /\ \A id \in ids :
                    /\ id \in DOMAIN rep.compliance_results
                    /\ \A reg \in Range(rep.regulations) :
                        /\ reg \in DOMAIN rep.compliance_results[id]
                        /\ IsComplianceResult(rep.compliance_results[id][reg])

\* A report of two clauses and two distinct regulations
C3_Witness ==
    \E t \in Tasks :
        /\ task[t].report # <<>>
        /\ Len(task[t].report[1].clauses) = 2
        /\ Cardinality(Range(task[t].report[1].regulations)) = 2
        /\ Cardinality(DOMAIN task[t].report[1].compliance_results) = 2

\* The canonical result of a pair that could not be evaluated
Sentinel ==
    [compliant |-> FALSE, requirements_met |-> <<>>,
     requirements_missing |-> <<"Analysis failed">>, risk_level |-> "high",
     findings |-> <<"Unable to analyze clause">>,
     recommendations |-> <<"Perform manual review">>]

\* The completion is a JSON object whose list fields are not all lists
WronglyShaped(g) ==
    /\ ~g.raised
    /\ g.text[1].json = "object"
    /\ \E v \in {g.text[1].obj.requirements_met, g.text[1].obj.requirements_missing,
                 g.text[1].obj.findings, g.text[1].obj.recommendations} :
            v.t \notin {"list", "absent"}

\* C4: wherever a failure of a pair is absorbed, in the evaluator or in the
\* orchestrator's own handler, the result reported for the pair is the
\* canonical sentinel.
C4_SentinelEverywhere ==
    \A t \in Tasks :
        LET tk == task[t] IN
        tk.report # <<>> =>
            \A ci \in DOMAIN tk.clauses : \A ri \in DOMAIN tk.regulations :
                LET g == tk.pair_resp[<<ci, LastPosition(tk.regulations, ri)>>] IN
                (EvaluatorFailure(g) \/ WronglyShaped(g)) =>
                    tk.report[1].compliance_results[tk.clauses[ci].id][tk.regulations[ri]]
                        = Sentinel

\* The number of elements of the clauses array that make a valid clause
ValidItems(items) ==
    Cardinality({i \in DOMAIN items :
        /\ items[i].is_dict
        /\ items[i].text_is_str
        /\ \E j \in DOMAIN items[i].text : items[i].text[j] \notin Whitespace})

\* The extraction call errored after its retries, or its completion holds
\* no JSON, or the JSON yields no valid clause
ExtractionFailed(g) ==
    \/ g.raised
    \/ ~g.text[1].has_span
    \/ ~g.text[1].parses
    \/ ValidItems(g.text[1].items) = 0

\* C5: when clause extraction fails the analysis fails with AnalysisError,
\* returns no report, and makes no compliance model call.
C5_ExtractionFailureAborts ==
    \A t \in Tasks :
        LET tk == task[t] IN
        (tk.extract_resp # <<>> /\ ExtractionFailed(tk.extract_resp[1])) =>
            /\ tk.phase = "Failed"
            /\ tk.error = "AnalysisError"
            /\ tk.report = <<>>
            /\ tk.summary = <<>>
            /\ \A i \in DOMAIN tk.calls : tk.calls[i].kind # "compliance"

\* A failed analysis whose completion parsed but held no valid clause
C5_Witness ==
    \E t \in Tasks :
        LET tk == task[t] IN
        /\ tk.phase = "Failed"
        /\ tk.extract_resp # <<>>
        /\ ~tk.extract_resp[1].raised
        /\ tk.extract_resp[1].text[1].parses
        /\ Len(tk.extract_resp[1].text[1].items) = 2
        /\ tk.regulations # <<>>

\* The text of the candidate is empty after normalization: it is no string,
\* or it holds whitespace only
EmptyAfterNormalization(item) ==
    item.is_dict /\ (~item.text_is_str \/ \A j \in DOMAIN item.text : item.text[j] \in Whitespace)

\* The requested regulations are distinct
DistinctRegulations(regs) == Cardinality(Range(regs)) = Len(regs)

\* C22: a successful analysis of k clauses under r distinct regulations has
\* called generate once for the extraction and then once for every (clause,
\* regulation) pair, clause by clause and regulation by regulation, k * r
\* calls and no repeated call, and no call once the pairs are evaluated.
C22_OneCallPerPair ==
    \A t \in Tasks :
        (/\ task[t].phase \in {"ComplianceEvaluated", "Summarized", "Reported"}
         /\ DistinctRegulations(task[t].regulations)) =>
            LET k == Len(task[t].clauses)
                r == Len(task[t].regulations)
                calls == task[t].calls
            IN /\ Len(calls) = 1 + k * r
               /\ calls[1] = [kind |-> "extraction", ci |-> 0, ri |-> 0]
               /\ \A i \in 1..k : \A j \in 1..r :
                    calls[1 + (i - 1) * r + j] = [kind |-> "compliance", ci |-> i, ri |-> j]

\* A report of two clauses under two distinct regulations, made with five
\* calls of generate
C22_Witness ==
    \E t \in Tasks :
        /\ task[t].phase = "Reported"
        /\ Len(task[t].clauses) = 2
        /\ Len(task[t].regulations) = 2
        /\ DistinctRegulations(task[t].regulations)
        /\ Len(task[t].calls) = 5

\* C19: the summary of the report that analyze_contract returns is the
\* aggregate statistics: overall_compliance, risk_distribution,
\* category_analysis, critical_findings and key_actions_required are keys of
\* report.summary itself.
C19_SummaryIsStatistics ==
    \A t \in Tasks :
        (task[t].phase = "Reported" /\ task[t].report # <<>>) =>
            StatisticsKeys \subseteq DOMAIN task[t].report[1].summary

----------------------------------------------------------------------------
(* Specification of the model-call capability: a client calls generate *)

LlmOutcomes == {LlmError, LlmNoGenerations, LlmBlank, LlmText("c1"), LlmText("c2")}

\* A client calls generate(prompt); the first attempt is about to run
GenerateCall ==
    /\ gen.state \in {"idle", "returned", "raised"}
    /\ gen.calls < MaxGenCalls
    /\ \E prompt_empty \in BOOLEAN :
        gen' = [IdleGen EXCEPT !.state = "attempting", !.prompt_empty = prompt_empty,
                               !.attempt = 1, !.calls = gen.calls + 1]
    /\ UNCHANGED <<task, clause_cache, next_id, running, http, fs, call>>

\* One attempt runs the function body; the decorator returns its value,
\* raises, or goes to sleep before the next attempt.  agenerate is called
\* only when the prompt is not empty.
GenerateAttempt ==
    /\ gen.state = "attempting"
    /\ \E o \in (IF gen.prompt_empty THEN {LlmError} ELSE LlmOutcomes) :
        LET r == GenerateBody(gen.prompt_empty, o)
            seen == IF gen.prompt_empty THEN gen.outcomes ELSE Append(gen.outcomes, o)
        IN IF ~r.raised
               THEN gen' = [gen EXCEPT !.state = "returned", !.text = r.text,
                                       !.outcomes = seen]
           ELSE IF ~RetryOn(r.exc)
               THEN gen' = [gen EXCEPT !.state = "raised", !.exc = r.exc,
                                       !.outcomes = seen]
           ELSE IF StopAfterAttempt(gen.attempt)
               THEN gen' = [gen EXCEPT !.state = "raised",
                                       !.exc = RetryExhausted(r.exc),
                                       !.outcomes = seen]
           ELSE gen' = [gen EXCEPT !.state = "waiting", !.outcomes = seen]
    /\ UNCHANGED <<task, clause_cache, next_id, running, http, fs, call>>

\* The backoff sleep ends and the next attempt is about to run
GenerateBackoff ==
    /\ gen.state = "waiting"
    /\ gen' = [gen EXCEPT !.state = "attempting", !.attempt = @ + 1,
                          !.waits = Append(@, WaitExponential(gen.attempt))]
    /\ UNCHANGED <<task, clause_cache, next_id, running, http, fs, call>>

NextLLM == GenerateCall \/ GenerateAttempt \/ GenerateBackoff

SpecLLM == Init /\ [][NextLLM]_vars

\* C9: generate called with an empty prompt fails fast: it fails after
\* exactly one attempt, with no retry and no backoff wait.
C9_EmptyPromptFailsFast ==
    gen.prompt_empty =>
        /\ gen.attempt <= 1
        /\ gen.waits = <<>>
        /\ gen.state \in {"attempting", "raised"}

\* The attempts of the current call that failed
FailedAttempts ==
    {i \in DOMAIN gen.outcomes : gen.outcomes[i].kind # "text"}

\* C10: generate with a non-empty prompt makes at most 3 attempts, returns
\* the text of its first successful attempt without a further attempt, and
\* after 3 failed attempts raises an LLMServiceError.
C10_ThreeAttemptsThenLLMError ==
    (gen.state # "idle" /\ ~gen.prompt_empty) =>
        /\ gen.attempt <= 3
        /\ Len(gen.outcomes) <= 3
        /\ gen.state = "returned" =>
            /\ Len(gen.outcomes) = gen.attempt
            /\ FailedAttempts = 1..(gen.attempt - 1)
            /\ gen.text = gen.outcomes[gen.attempt].text
        /\ gen.state = "raised" =>
            /\ FailedAttempts = 1..3
            /\ gen.exc = "LLMServiceError"

----------------------------------------------------------------------------
(* Specification of two analyses run as coroutines of one ContractAnalyzer *)

SharedDocuments == {d \in Documents : d.text \in {"T1", "T2"}}

SharedExtractionResults ==
    GenerateResults({[has_span |-> FALSE, parses |-> FALSE, items |-> <<>>],
                     [has_span |-> TRUE, parses |-> TRUE, items |-> <<CandidateClause>>]})

SharedComplianceResults ==
    GenerateResults({c \in ComplianceCompletions :
                        c.json = "array" \/ (c.json = "object" /\ c.obj = ObjectFull)})

\* analyzer.analyze_contract(file_path, regulations) on the one analyzer
SharedAnalyzeContract(t) ==
    /\ \E doc \in SharedDocuments : StartAnalysis(t, 1, doc, <<"gdpr">>)
    /\ UNCHANGED <<clause_cache, next_id, gen, http, fs, call>>

NextShared ==
    \E t \in Tasks :
        \/ SharedAnalyzeContract(t)
        \/ Parse(t)
        \/ ExtractClausesBegin(t)
        \/ ExtractClausesEnd(t, SharedExtractionResults)
        \/ PairBegin(t)
        \/ PairEnd(t, SharedComplianceResults)
        \/ ClauseEnd(t)
        \/ EvaluationEnd(t)
        \/ Summarize(t)
        \/ Report(t)

SpecShared == Init /\ [][NextShared]_vars

\* C7: first writer wins.  A value cached for a key is never replaced by a
\* different value.
C7_FirstWriterWins ==
    [][\A a \in Analyzers : \A k \in DOMAIN clause_cache[a] :
            /\ k \in DOMAIN clause_cache'[a]
            /\ clause_cache'[a][k] = clause_cache[a][k]]_vars

----------------------------------------------------------------------------
(* Specification of the HTTP service: the two routes of contracts.py *)

ServerRegLists == {<<"gdpr">>}

ServerExtractionResults ==
    GenerateResults({[has_span |-> TRUE, parses |-> TRUE, items |-> <<CandidateClause>>],
                     [has_span |-> TRUE, parses |-> FALSE, items |-> <<>>]})

ServerComplianceResults ==
    GenerateResults({c \in ComplianceCompletions : c.json = "object" /\ c.obj = ObjectFull})

BatchDocuments == {d \in Documents : d.name \in {"a.txt", "broken.pdf", "run.exe"}}

BatchUploads == SeqsUpTo(BatchDocuments, MaxFiles) \ {<<>>}

\* The path save_temp_file gives the i-th file of request r
TempPath(r, i) == <<r, i>>

\* StorageService.cleanup: shutil.rmtree(self.temp_dir)
Cleanup == [dir |-> FALSE, files |-> {}]

\* The route handler ends with the given response
Respond(r, status, reports, error) ==
    http' = [http EXCEPT ![r].state = IF status = 200 THEN "responded" ELSE "done",
                         ![r].status = status, ![r].reports = reports,
                         ![r].error = error]

\* POST /contracts/analyze, lines 24-30: the file type is validated,
\* StorageService() makes the temporary directory, save_temp_file awaits
\* the upload's content
AnalyzeRouteBegin(r) ==
    /\ http[r].state = "idle"
    /\ running = 0
    /\ \E doc \in Documents :
        IF ~doc.allowed
            THEN /\ http' = [http EXCEPT ![r].state = "done", ![r].kind = "single",
                                         ![r].files = <<doc>>, ![r].status = 400,
                                         ![r].error = "ValidationError"]
                 /\ UNCHANGED fs
            ELSE /\ http' = [http EXCEPT ![r].state = "saving", ![r].kind = "single",
                                         ![r].files = <<doc>>]
                 /\ fs' = [fs EXCEPT !.dir = TRUE]
    /\ UNCHANGED <<task, clause_cache, next_id, running, gen, call>>

\* Lines 30-36: the file is written, the LLM service and a new
\* ContractAnalyzer, with a new ComplianceAnalyzer and an empty clause
\* cache, are made, and analyze_contract starts
AnalyzeRouteSave(r) ==
    /\ http[r].state = "saving"
    /\ http[r].kind = "single"
    /\ running = 0
    /\ IF ~fs.dir
           THEN /\ Respond(r, 500, <<>>, "StorageError")
                /\ fs' = Cleanup
                /\ UNCHANGED <<task, clause_cache, running>>
           ELSE /\ fs' = [fs EXCEPT !.files = @ \cup {TempPath(r, 1)}]
                /\ http' = [http EXCEPT ![r].state = "analyzing", ![r].saved = 1]
                /\ clause_cache' = [clause_cache EXCEPT ![r] = EmptyDict]
                /\ \E regs \in ServerRegLists :
                    StartAnalysis(r, r, http[r].files[1], regs)
    /\ UNCHANGED <<next_id, gen, call>>

\* Lines 37-46: analyze_contract has returned or raised; the storage
\* context runs cleanup and the response is made
AnalyzeRouteEnd(r) ==
    /\ http[r].state = "analyzing"
    /\ running = r
    /\ task[r].phase \in {"Reported", "Failed"}
    /\ IF task[r].phase = "Reported"
           THEN Respond(r, 200, task[r].report, "")
           ELSE Respond(r, 500, <<>>, task[r].error)
    /\ fs' = Cleanup
    /\ running' = 0
    /\ UNCHANGED <<task, clause_cache, next_id, gen, call>>

\* The background tasks of a sent response: delete_temp_file for each file
\* the request saved
BackgroundDelete(r) ==
    /\ http[r].state = "responded"
    /\ running = 0
    /\ fs' = [fs EXCEPT !.files = @ \ {TempPath(r, i) : i \in 1..http[r].saved}]
    /\ http' = [http EXCEPT ![r].state = "done"]
    /\ UNCHANGED <<task, clause_cache, next_id, running, gen, call>>

\* ContractAnalyzer has no method analyze_multiple_contracts: the call of
\* line 76 raises AttributeError
AnalyzeMultipleContracts(files) ==
    [raised |-> TRUE, exc |-> "AttributeError", reports |-> <<>>]

\* POST /contracts/analyze-batch.
\* Lines 62-66: the storage service is made and the first file is reached
BatchRouteBegin(r) ==
    /\ http[r].state = "idle"
    /\ running = 0
    /\ \E files \in BatchUploads :
        IF ~files[1].allowed
            THEN /\ http' = [http EXCEPT ![r].state = "done", ![r].kind = "batch",
                                         ![r].files = files, ![r].status = 400,
                                         ![r].error = "ValidationError"]
                 /\ fs' = Cleanup
            ELSE /\ http' = [http EXCEPT ![r].state = "saving", ![r].kind = "batch",
                                         ![r].files = files]
                 /\ fs' = [fs EXCEPT !.dir = TRUE]
    /\ UNCHANGED <<task, clause_cache, next_id, running, gen, call>>

\* Lines 69-85: a file is written; the loop goes to the next file, or the
\* analyzer is made and analyze_multiple_contracts is called
BatchRouteSave(r) ==
    /\ http[r].state = "saving"
    /\ http[r].kind = "batch"
    /\ running = 0
    /\ LET files == http[r].files
           saved == http[r].saved + 1
       IN IF ~fs.dir
              THEN /\ Respond(r, 500, <<>>, "StorageError")
                   /\ fs' = Cleanup
                   /\ UNCHANGED clause_cache
          ELSE IF saved < Len(files)
              THEN /\ IF ~files[saved + 1].allowed
                          THEN /\ http' = [http EXCEPT ![r].state = "done",
                                              ![r].saved = saved, ![r].status = 400,
                                              ![r].error = "ValidationError"]
                               /\ fs' = Cleanup
                          ELSE /\ http' = [http EXCEPT ![r].saved = saved]
                               /\ fs' = [fs EXCEPT !.files = @ \cup {TempPath(r, saved)}]
                   /\ UNCHANGED clause_cache
          ELSE LET result == AnalyzeMultipleContracts(files) IN
                   /\ clause_cache' = [clause_cache EXCEPT ![r] = EmptyDict]
                   /\ fs' = Cleanup
                   /\ IF result.raised
                          THEN http' = [http EXCEPT ![r].state = "done",
                                           ![r].saved = saved, ![r].status = 500,
                                           ![r].error = result.exc]
                          ELSE http' = [http EXCEPT ![r].state = "responded",
                                           ![r].saved = saved, ![r].status = 200,
                                           ![r].reports = result.reports]
    /\ UNCHANGED <<task, next_id, running, gen, call>>

NextServer ==
    \E r \in Requests :
        \/ AnalyzeRouteBegin(r)
        \/ AnalyzeRouteSave(r)
        \/ AnalyzeRouteEnd(r)
        \/ BackgroundDelete(r)
        \/ BatchRouteBegin(r)
        \/ BatchRouteSave(r)
        \/ Parse(r)
        \/ ExtractClausesBegin(r)
        \/ ExtractClausesEnd(r, ServerExtractionResults)
        \/ PairBegin(r)
        \/ PairEnd(r, ServerComplianceResults)
        \/ ClauseEnd(r)
        \/ EvaluationEnd(r)
        \/ Summarize(r)
        \/ Report(r)

SpecServer == Init /\ [][NextServer]_vars

\* Some analysis of the process has extracted the clauses of the text
ExtractedBefore(text) ==
    \E t \in Tasks :
        /\ task[t].phase \in AfterExtraction
        /\ task[t].contract_text = text

\* C6: the clause cache lives as long as the process.  Once the clauses of
\* a text have been extracted, no later analysis of that text, of a later
\* HTTP request included, calls the model for clause extraction.
C6_ProcessLifetimeCache ==
    [][\A t \in Tasks :
            (task[t].phase = "Parsed" /\ task'[t].phase = "AwaitExtraction")
                => ~ExtractedBefore(task[t].contract_text)]_vars

\* C8: a batch of allowed files is answered with one report per document,
\* whether or not some document of the batch cannot be parsed.
C8_BatchReportsEveryDocument ==
    \A r \in Requests :
        (/\ http[r].kind = "batch"
         /\ http[r].state \in {"responded", "done"}
         /\ \A i \in DOMAIN http[r].files : http[r].files[i].allowed)
            => /\ http[r].status = 200
               /\ Len(http[r].reports) = Len(http[r].files)

\* The file that an analyze request has saved is there while its analysis
\* has not parsed it
SavedFileKept(r) ==
    (/\ http[r].kind = "single"
     /\ http[r].state = "analyzing"
     /\ task[r].phase = "Received")
        => TempPath(r, 1) \in fs.files

\* C26: whatever the other requests do, the end of another request and its
\* storage cleanup included, an analyze request that is about to save its
\* file finds the temporary directory, and the file it has saved is there
\* until its own analysis has parsed it.
C26_TempFileSurvivesOtherRequests ==
    \A r \in Requests :
        /\ (http[r].kind = "single" /\ http[r].state = "saving") => fs.dir
        /\ SavedFileKept(r)


----------------------------------------------------------------------------
(* Specification of the text normalizers called on their own *)

Texts == SeqsUpTo(Characters, MaxTextLen)

\* normalize(raw) is called: ContractParser._clean_text on a string, or
\* ComplianceAnalyzer._clean_text on a string or on a value that is no string
InitNormalizer ==
    /\ InitService
    /\ \E s \in Texts, b \in BOOLEAN :
         \E fn \in {"ContractParser._clean_text", "ComplianceAnalyzer._clean_text"} :
            /\ fn = "ContractParser._clean_text" => b
            /\ call = [fn |-> fn, state |-> "called", is_str |-> b, arg |-> s,
                       again |-> FALSE, out |-> <<>>]

\* ContractParser._clean_text returns
ParserCleanTextReturn ==
    /\ call.fn = "ContractParser._clean_text"
    /\ call.state = "called"
    /\ call' = [call EXCEPT !.state = "returned", !.out = ParserCleanText(call.arg)]
    /\ UNCHANGED <<task, clause_cache, next_id, running, gen, http, fs>>

\* ComplianceAnalyzer._clean_text returns
CleanTextReturn ==
    /\ call.fn = "ComplianceAnalyzer._clean_text"
    /\ call.state = "called"
    /\ call' = [call EXCEPT !.state = "returned",
                            !.out = CleanText(call.is_str, call.arg)]
    /\ UNCHANGED <<task, clause_cache, next_id, running, gen, http, fs>>

\* The caller hands the normalized text to the same normalizer again
NormalizeAgain ==
    /\ call.state = "returned"
    /\ ~call.again
    /\ call' = [call EXCEPT !.state = "called", !.is_str = TRUE, !.arg = call.out,
                            !.again = TRUE, !.out = <<>>]
    /\ UNCHANGED <<task, clause_cache, next_id, running, gen, http, fs>>

NextNormalizer == ParserCleanTextReturn \/ CleanTextReturn \/ NormalizeAgain

SpecNormalizer == InitNormalizer /\ [][NextNormalizer]_vars

\* C11: the text normalizers are idempotent.  Normalizing a text that a
\* normalizer returned gives that text back, for ContractParser._clean_text
\* and for ComplianceAnalyzer._clean_text.
C11_Idempotent ==
    (call.state = "returned" /\ call.again) => call.out = call.arg


----------------------------------------------------------------------------
(* Specification of the validators called on their own *)

\* A category as the model may spell it: upper or lower case, spaces or
\* underscores between the words, whitespace around it
Spelling(category, upper, spaces, padded) ==
    LET cased == IF upper THEN Upper(category) ELSE category
        spaced == IF spaces THEN Replace(cased, "_", " ") ELSE cased
    IN IF padded THEN <<" ">> \o spaced \o <<"\n">> ELSE spaced

\* The inputs of _validate_category.  canonical holds the category that the
\* input spells, and is empty when the input is no category.
CategoryInputs ==
    {[value |-> TStr(Spelling(c, u, sp, pad)), canonical |-> <<c>>] :
        c \in ClauseCategory, u \in BOOLEAN, sp \in BOOLEAN, pad \in BOOLEAN}
    \cup {[value |-> v, canonical |-> <<>>] :
            v \in {TAbsent, TNull, TStr(<<>>), TStr(<<" ">>), TNum(<<"0">>), TNum(<<"7">>),
                   TStr(Other), TStr(<<"p", "r", "i", "v", "a", "c", "y">>),
                   TStr(<<"d", "a", "t", "a", "-", "p", "r", "i", "v", "a", "c", "y">>),
                   TStr(<<"s", "e", "c", "u", "r", "i", "t", "y", "_">>)}}

\* The entries of a secondary_categories list: what is no category, and two
\* categories in a spelling of the model
SecondaryEntries ==
    {e \in CategoryInputs : e.canonical = <<>> /\ e.value.t # "absent"}
    \cup {[value |-> TStr(Spelling(c, TRUE, TRUE, TRUE)), canonical |-> <<c>>] :
            c \in {<<"p", "a", "y", "m", "e", "n", "t">>,
                   <<"d", "a", "t", "a", "_", "p", "r", "i", "v", "a", "c", "y">>}}

\* The inputs of _process_clause: a clause with text and a list of
\* secondary categories; entries keeps what each entry of the list spells
ClauseInputs ==
    {[clause |-> [CandidateClause EXCEPT
                     !.secondary_categories = TList([i \in DOMAIN es |-> es[i].value])],
      entries |-> es] : es \in SeqsUpTo(SecondaryEntries, MaxCategories)}

\* The inputs of _validate_risk_level.  level holds the level that the
\* input spells up to letter case and surrounding whitespace, and is empty
\* when it spells none.
RiskLevelInputs ==
    {[value |-> TStr(Spelling(Chars(l), u, FALSE, pad)), level |-> <<l>>] :
        l \in ValidLevels, u \in BOOLEAN, pad \in BOOLEAN}
    \cup {[value |-> v, level |-> <<>>] :
            v \in {TAbsent, TNull, TNum(<<"0">>), TNum(<<"7">>), TList(<<>>), TStr(<<>>),
                   TStr(Chars("critical")),
                   TStr(<<"l", "o", " ", "w">>), TStr(<<"h", "i", "g", "h", "e", "r">>)}}

\* The completions of the compliance prompt whose object carries each kind
\* of value under risk_level
RiskLevelCompletions ==
    ComplianceCompletions
    \cup {[json |-> "object", obj |-> [ObjectFull EXCEPT !.risk_level = v]] :
            v \in {JAbsent, JNull, JNum(7), JList(<<>>), JBool(TRUE), JStr("high"),
                   JStr("medium"), JStr("Medium "), JStr("critical")}}

\* The completions of the compliance prompt whose object carries each kind
\* of value under compliant
VerdictCompletions ==
    {[json |-> "object", obj |-> [ObjectFull EXCEPT !.compliant = v]] :
        v \in {JAbsent, JNull, JBool(TRUE), JBool(FALSE), JStr("false"), JStr("no"),
               JStr(""), JNum(0), JNum(1), JList(<<>>), JList(<<"x">>)}}

\* The completions of the extraction prompt handed to extract_clauses: the
\* span parses or not, and the clauses array holds any candidates
ExtractionCallCompletions ==
    ExtractionCompletions
    \cup {[has_span |-> TRUE, parses |-> ok, items |-> it] :
            ok \in BOOLEAN, it \in SeqsUpTo(Candidates \cup {CandidateNested}, MaxItems)}

ValidationCalls ==
    {[fn |-> "_validate_category", state |-> "called", arg |-> a, out |-> <<>>] :
        a \in CategoryInputs}
    \cup {[fn |-> "extract_clauses", state |-> "called", arg |-> g, out |-> <<>>] :
            g \in GenerateResults(ExtractionCallCompletions)}
    \cup {[fn |-> "_validate_risk_level", state |-> "called", arg |-> a, out |-> <<>>] :
            a \in RiskLevelInputs}
    \cup {[fn |-> "_analyze_single_regulation", state |-> "called", arg |-> g,
           out |-> <<>>] :
            g \in GenerateResults(RiskLevelCompletions \cup VerdictCompletions)}
    \cup {[fn |-> "_process_clause", state |-> "called", arg |-> a, out |-> <<>>] :
            a \in ClauseInputs}

InitValidation ==
    /\ InitService
    /\ call \in ValidationCalls

\* _validate_category returns; an absent key has the default "other" of
\* line 321
ValidateCategoryReturn ==
    /\ call.fn = "_validate_category"
    /\ call.state = "called"
    /\ call' = [call EXCEPT !.state = "returned",
                            !.out = ValidateCategory(Get(call.arg.value, TStr(Other)))]
    /\ UNCHANGED <<task, clause_cache, next_id, running, gen, http, fs>>

\* _process_clause returns
ProcessClauseReturn ==
    /\ call.fn = "_process_clause"
    /\ call.state = "called"
    /\ call' = [call EXCEPT !.state = "returned",
                            !.out = ProcessClause(call.arg.clause, next_id)]
    /\ UNCHANGED <<task, clause_cache, next_id, running, gen, http, fs>>

\* _validate_risk_level returns; an absent key has the default "high" of
\* line 182
ValidateRiskLevelReturn ==
    /\ call.fn = "_validate_risk_level"
    /\ call.state = "called"
    /\ call' = [call EXCEPT
                   !.state = "returned",
                   !.out = ValidateRiskLevel(Get(call.arg.value, TStr(Chars("high"))))]
    /\ UNCHANGED <<task, clause_cache, next_id, running, gen, http, fs>>

\* _analyze_single_regulation returns, the model call having handed back
\* call.arg
AnalyzeSingleRegulationReturn ==
    /\ call.fn = "_analyze_single_regulation"
    /\ call.state = "called"
    /\ call' = [call EXCEPT !.state = "returned",
                            !.out = AnalyzeSingleRegulation(call.arg)]
    /\ UNCHANGED <<task, clause_cache, next_id, running, gen, http, fs>>

\* extract_clauses returns or raises, the model call having handed back
\* call.arg
ExtractClausesReturn ==
    /\ call.fn = "extract_clauses"
    /\ call.state = "called"
    /\ call' = [call EXCEPT !.state = "returned",
                            !.out = ProcessExtraction(call.arg, next_id)]
    /\ UNCHANGED <<task, clause_cache, next_id, running, gen, http, fs>>

NextValidation ==
    \/ ExtractClausesReturn
    \/ ValidateCategoryReturn
    \/ ProcessClauseReturn
    \/ ValidateRiskLevelReturn
    \/ AnalyzeSingleRegulationReturn

SpecValidation == InitValidation /\ [][NextValidation]_vars

\* C25: _analyze_single_regulation returns compliant = true only when the
\* model call returned a completion whose JSON is an object that carries the
\* boolean true under compliant; a string, a number, a list, null or an
\* absent key there gives compliant = false
C25_FailSafeVerdict ==
    (/\ call.fn = "_analyze_single_regulation"
     /\ call.state = "returned"
     /\ call.out.compliant = JBool(TRUE))
        => /\ ~call.arg.raised
           /\ call.arg.text # <<>>
           /\ call.arg.text[1].json = "object"
           /\ call.arg.text[1].obj.compliant = JBool(TRUE)

\* C12: validate_category returns "other" for every input that is no
\* category of the closed vocabulary, empty and absent input included, and
\* the canonical lowercase-underscored category for every input that spells
\* one up to letter case, surrounding whitespace and spaces for underscores.
C12_ValidateCategory ==
    (call.fn = "_validate_category" /\ call.state = "returned") =>
        /\ call.arg.canonical = <<>> => call.out = Other
        /\ call.arg.canonical # <<>> => call.out = call.arg.canonical[1]

\* A category spelled in upper case with spaces and padding was validated
C12_Witness ==
    /\ call.fn = "_validate_category"
    /\ call.state = "returned"
    /\ call.arg.value.t = "str"
    /\ call.arg.value.text = Spelling(call.out, TRUE, TRUE, TRUE)
    /\ call.out = <<"f", "o", "r", "c", "e", "_", "m", "a", "j", "e", "u", "r", "e">>


\* The entry spells a category
SpellsCategory(entry) == entry.canonical # <<>>

\* C13: invalid entries of secondary_categories are silently dropped.  The
\* clause is kept and its secondary_categories holds, in order, the canonical
\* forms of the entries that spell a category and nothing for the others.
C13_InvalidSecondaryDropped ==
    (call.fn = "_process_clause" /\ call.state = "returned") =>
        /\ call.out # <<>>
        /\ LET valid == SelectSeq(call.arg.entries, SpellsCategory)
           IN call.out[1].secondary_categories =
                  [i \in DOMAIN valid |-> valid[i].canonical[1]]


\* The input is one of the strings high, medium, low as written
LiteralLevel(value) == value.t = "str" /\ \E l \in ValidLevels : Chars(l) = value.text

\* C14 as stated: risk-level validation returns "high" for every input
\* outside {high, medium, low}, null, absent and non-string values included,
\* and the level itself for high, medium and low; every result of the
\* evaluator has its risk_level in {high, medium, low}.
C14_RiskLevelAsStated ==
    /\ (call.fn = "_validate_risk_level" /\ call.state = "returned") =>
        IF LiteralLevel(call.arg.value)
            THEN Chars(call.out) = call.arg.value.text
            ELSE call.out = "high"
    /\ (call.fn = "_analyze_single_regulation" /\ call.state = "returned") =>
        /\ call.out.risk_level.t = "str"
        /\ call.out.risk_level.s \in {"high", "medium", "low"}

\* C14 amended: risk-level validation returns "high" for every input that
\* does not spell high, medium or low up to letter case and surrounding
\* whitespace, null, absent and non-string values included, and the
\* lowercase level for every input that does; every result of the evaluator
\* has its risk_level in {high, medium, low}.
C14_RiskLevel ==
    /\ (call.fn = "_validate_risk_level" /\ call.state = "returned") =>
        /\ call.arg.level = <<>> => call.out = "high"
        /\ call.arg.level # <<>> => call.out = call.arg.level[1]
    /\ (call.fn = "_analyze_single_regulation" /\ call.state = "returned") =>
        /\ call.out.risk_level.t = "str"
        /\ call.out.risk_level.s \in {"high", "medium", "low"}

\* The level medium, written in upper case with whitespace around it, was
\* validated
C14_Witness ==
    /\ call.fn = "_validate_risk_level"
    /\ call.state = "returned"
    /\ call.arg.value.text = <<" ", "M", "E", "D", "I", "U", "M", "\n">>
    /\ call.out = "medium"


\* C15: every clause candidate whose text is empty after normalization is
\* discarded.  Every clause that extract_clauses returns has a non-empty
\* text, and the clauses are at most as many as the elements of the clauses
\* array that the model reported, less the candidates with an empty text.
C15_EmptyTextDiscarded ==
    (call.fn = "extract_clauses" /\ call.state = "returned" /\ ~call.out.raised) =>
        LET items == call.arg.text[1].items IN
        /\ \A i \in DOMAIN call.out.clauses : call.out.clauses[i].text # <<>>
        /\ Len(call.out.clauses) <= Len(items)
        /\ Len(call.out.clauses) + Cardinality({i \in DOMAIN items :
                                       EmptyAfterNormalization(items[i])}) <= Len(items)


----------------------------------------------------------------------------
(* Specification of the response extractor called on its own *)

\* Well-formed JSON objects as the model writes them: empty, flat, with a
\* nested object, with an array
JsonObjects ==
    {<<"{", "}">>,
     <<"{", "\"compliant\": true", "\"risk_level\": \"low\"", "}">>,
     <<"{", "\"details\":", "{", "\"compliant\": true", "\"risk_level\": \"low\"", "}", "}">>,
     <<"{", "\"findings\":", "[", "\"f1\"", "]", "\"compliant\": true", "}">>}

\* What the model writes around the JSON: words, braces and brackets of its
\* prose, fence markers, tabs
ProseTokens == {"text", "{", "}", "[", "]"} \cup FenceTokens \cup NonPrintableTokens

\* A well-formed object inside prose and markup
WrappedObjects ==
    UNION {{[raw |-> SubSeq(prose, 1, k) \o object \o SubSeq(prose, k + 1, Len(prose)),
             embedded |-> object] : k \in 0..Len(prose)} :
              object \in JsonObjects, prose \in SeqsUpTo(ProseTokens, MaxProse)}

\* A completion cut off before the end of its JSON object
TruncatedObjects ==
    UNION {{[raw |-> opening \o SubSeq(object, 1, n), embedded |-> object] :
              n \in 1..(Len(object) - 1)} :
              object \in JsonObjects, opening \in {<<>>, <<"FENCE-JSON">>}}

ResponseCalls ==
    {[fn |-> "_extract_json_from_response", state |-> "called", arg |-> w, out |-> <<>>] :
        w \in WrappedObjects}
    \cup {[fn |-> "_analyze_single_regulation", state |-> "called", arg |-> w, out |-> <<>>] :
            w \in TruncatedObjects}

InitResponse ==
    /\ InitService
    /\ call \in ResponseCalls

\* _extract_json_from_response returns
ExtractJsonFromResponseReturn ==
    /\ call.fn = "_extract_json_from_response"
    /\ call.state = "called"
    /\ call' = [call EXCEPT !.state = "returned", !.out = ExtractJson(call.arg.raw)]
    /\ UNCHANGED <<task, clause_cache, next_id, running, gen, http, fs>>

\* _analyze_single_regulation returns, the model call having returned the
\* text call.arg.raw
EvaluateResponseReturn ==
    /\ call.fn = "_analyze_single_regulation"
    /\ call.state = "called"
    /\ call' = [call EXCEPT
                   !.state = "returned",
                   !.out = AnalyzeSingleRegulation(
                               [raised |-> FALSE, exc |-> "",
                                text |-> <<DescribeCompletion(call.arg.raw)>>])]
    /\ UNCHANGED <<task, clause_cache, next_id, running, gen, http, fs>>

NextResponse == ExtractJsonFromResponseReturn \/ EvaluateResponseReturn

SpecResponse == InitResponse /\ [][NextResponse]_vars

\* C16: response-extraction round trip.  For a well-formed JSON object
\* inside any prose and fence markers, extract_json returns a string, and
\* the string parses to the embedded object.
C16_RoundTrip ==
    (call.fn = "_extract_json_from_response" /\ call.state = "returned") =>
        /\ call.out # <<>>
        /\ JsonLoads(call.out[1])
        /\ call.out[1] = call.arg.embedded

\* The text parses as a JSON object
ParsesAsObject(text) == text # <<>> /\ text[1] = "{" /\ JsonLoads(text)

\* C21: extract_json tries the greedy {...} span, then the [...] span, then
\* the single-level {...} substrings, and returns what the first strategy
\* that parses yields; a string it returns parses as a JSON object; it
\* returns None exactly when no strategy yields valid JSON.
C21_StrategiesYieldObject ==
    (call.fn = "_extract_json_from_response" /\ call.state = "returned") =>
        LET response == CleanResponse(call.arg.raw)
            first == GreedySpan(response, "{", "}")
            second == GreedySpan(response, "[", "]")
            third == SelectSeq(SingleLevelSpans(response, 1), JsonLoads)
            first_parses == first # <<>> /\ JsonLoads(first[1])
            second_parses == second # <<>> /\ JsonLoads(second[1])
        IN /\ first_parses => call.out = first
           /\ (~first_parses /\ ~second_parses /\ third # <<>>) => call.out = <<third[1]>>
           /\ call.out = <<>> <=> (~first_parses /\ ~second_parses /\ third = <<>>)
           /\ call.out # <<>> => ParsesAsObject(call.out[1])

\* C17: for a malformed or truncated completion of a compliance call the
\* evaluator returns exactly the fail-safe default result, whatever parts of
\* the completion parse on their own.
C17_MalformedGivesDefault ==
    (/\ call.fn = "_analyze_single_regulation"
     /\ call.state = "returned"
     /\ ~JsonLoads(CleanResponse(call.arg.raw))) =>
        call.out = GetDefaultResult


----------------------------------------------------------------------------
(* Specification of the report generator called on its own *)

\* The order in which a clause's results are keyed
RegulationOrder == <<"gdpr", "hipaa">>

\* The dict of a result with the verdict v
VerdictResult(v) == ModelDump([ComplianceResultDefaults EXCEPT !.compliant = v])

\* compliance_results holding the verdicts pair by pair: clause 1 under
\* gdpr, clause 1 under hipaa, clause 2 under gdpr, ...
ResultsOfVerdicts(verdicts) ==
    [id \in 1..((Len(verdicts) + 1) \div 2) |->
        [reg \in {RegulationOrder[j] : j \in {k \in 1..2 : 2 * (id - 1) + k <= Len(verdicts)}} |->
            VerdictResult(verdicts[2 * (id - 1) + (IF reg = RegulationOrder[1] THEN 1 ELSE 2)])]]

\* The results on which a statistic raises: a risk_level of None, and
\* findings of None under a high risk
FailingResults ==
    {[compliant |-> JBool(TRUE), requirements_met |-> JList(<<"r1">>),
      requirements_missing |-> JList(<<>>), risk_level |-> JNull,
      findings |-> JList(<<"f1">>), recommendations |-> JList(<<"a1">>)],
     [compliant |-> JBool(FALSE), requirements_met |-> JList(<<>>),
      requirements_missing |-> JList(<<"r1">>), risk_level |-> JStr("high"),
      findings |-> JNull, recommendations |-> JList(<<"a1">>)]}

\* The dicts of results given to generate_report: a low-risk one, a
\* high-risk one, one of an upper-case level, and the failing ones
ReportResults ==
    {[compliant |-> JBool(TRUE), requirements_met |-> JList(<<"r1">>),
      requirements_missing |-> JList(<<>>), risk_level |-> JStr("low"),
      findings |-> JList(<<"f1">>), recommendations |-> JList(<<"a1">>)],
     [compliant |-> JBool(FALSE), requirements_met |-> JList(<<>>),
      requirements_missing |-> JList(<<"r1">>), risk_level |-> JStr("high"),
      findings |-> JList(<<"f1", "f2">>), recommendations |-> JList(<<"a1">>)],
     [compliant |-> JBool(FALSE), requirements_met |-> JList(<<>>),
      requirements_missing |-> JList(<<"r1">>), risk_level |-> JStr("HIGH"),
      findings |-> JList(<<"f1", "f2">>), recommendations |-> JList(<<"a1">>)]}
    \cup FailingResults

\* The dicts of clauses given to generate_report
ReportClauses ==
    {[text |-> <<"a">>],
     [text |-> <<"a">>, primary_category |-> Other],
     [text |-> <<"a">>, primary_category |-> <<"p", "a", "y", "m", "e", "n", "t">>]}

\* The arguments of generate_report: every clause has the same result under
\* each of the regulations
ReportInputs ==
    UNION {{[file_path |-> "a.txt", clauses |-> clauses,
             compliance_results |-> [id \in 1..n |-> [reg \in Regulations |-> results[id]]],
             regulations |-> RegulationOrder] :
               clauses \in [1..n -> ReportClauses],
               results \in [1..n -> ReportResults]} : n \in 0..MaxItems}

ReportCalls ==
    {[fn |-> "_calculate_overall_compliance", state |-> "called",
      arg |-> [compliance_results |-> ResultsOfVerdicts(verdicts), verdicts |-> verdicts],
      out |-> <<>>] : verdicts \in SeqsUpTo(BOOLEAN, MaxReportPairs)}
    \cup {[fn |-> "generate_report", state |-> "called", arg |-> input, out |-> <<>>] :
            input \in ReportInputs}

\* The dicts of clauses given to _analyze_categories: no primary_category,
\* or one of four categories
CategoryClauses ==
    {[text |-> <<"a">>],
     [text |-> <<"a">>, primary_category |-> Other],
     [text |-> <<"a">>, primary_category |-> <<"p", "a", "y", "m", "e", "n", "t">>],
     [text |-> <<"a">>, primary_category |-> <<"s", "e", "c", "u", "r", "i", "t", "y">>],
     [text |-> <<"a">>, primary_category |-> <<"l", "i", "a", "b", "i", "l", "i", "t", "y">>]}

\* The dicts of results given to _extract_critical_findings and
\* _extract_key_actions: high-risk ones with repeated, shared and many texts,
\* one without the two keys, a low-risk one and one of an upper-case level
HighRiskResults ==
    {[compliant |-> JBool(FALSE), requirements_met |-> JList(<<>>),
      requirements_missing |-> JList(<<"r1">>), risk_level |-> JStr("high"),
      findings |-> JList(<<"f1", "f2", "f1">>), recommendations |-> JList(<<"a1", "a1">>)],
     [compliant |-> JBool(FALSE), requirements_met |-> JList(<<>>),
      requirements_missing |-> JList(<<"r1">>), risk_level |-> JStr("high"),
      findings |-> JList(<<"f2", "f3">>), recommendations |-> JList(<<"a1", "a2">>)],
     [compliant |-> JBool(FALSE), requirements_met |-> JList(<<>>),
      requirements_missing |-> JList(<<"r1">>), risk_level |-> JStr("high"),
      findings |-> JList(<<"f4", "f5", "f6">>),
      recommendations |-> JList(<<"a3", "a4", "a5", "a6">>)],
     [compliant |-> JBool(FALSE), requirements_met |-> JList(<<>>),
      requirements_missing |-> JList(<<"r1">>), risk_level |-> JStr("high"),
      findings |-> JAbsent, recommendations |-> JAbsent],
     [compliant |-> JBool(TRUE), requirements_met |-> JList(<<"r1">>),
      requirements_missing |-> JList(<<>>), risk_level |-> JStr("low"),
      findings |-> JList(<<"f7">>), recommendations |-> JList(<<"a7">>)],
     [compliant |-> JBool(FALSE), requirements_met |-> JList(<<>>),
      requirements_missing |-> JList(<<"r1">>), risk_level |-> JStr("HIGH"),
      findings |-> JList(<<"f8">>), recommendations |-> JList(<<"a8">>)]}

InitReport ==
    /\ InitService
    /\ \/ call \in ReportCalls
       \/ \E clauses \in SeqsUpTo(CategoryClauses, MaxClauseList) :
            call = [fn |-> "_analyze_categories", state |-> "called",
                    arg |-> [clauses |-> clauses], out |-> <<>>]
       \/ \E n \in 0..MaxItems :
            \E compliance_results \in [1..n -> [Regulations -> HighRiskResults]],
               fn \in {"_extract_critical_findings", "_extract_key_actions"} :
              call = [fn |-> fn, state |-> "called",
                      arg |-> [compliance_results |-> compliance_results], out |-> <<>>]

\* _extract_critical_findings returns or raises
ExtractCriticalFindingsReturn ==
    /\ call.fn = "_extract_critical_findings"
    /\ call.state = "called"
    /\ LET result == ExtractCriticalFindings(call.arg.compliance_results)
       IN IF result.raised
          THEN call' = [call EXCEPT !.state = "raised", !.out = <<result.exc>>]
          ELSE \E items \in result.value :
                 call' = [call EXCEPT !.state = "returned", !.out = <<items>>]
    /\ UNCHANGED <<task, clause_cache, next_id, running, gen, http, fs>>

\* _extract_key_actions returns or raises
ExtractKeyActionsReturn ==
    /\ call.fn = "_extract_key_actions"
    /\ call.state = "called"
    /\ LET result == ExtractKeyActions(call.arg.compliance_results)
       IN IF result.raised
          THEN call' = [call EXCEPT !.state = "raised", !.out = <<result.exc>>]
          ELSE \E items \in result.value :
                 call' = [call EXCEPT !.state = "returned", !.out = <<items>>]
    /\ UNCHANGED <<task, clause_cache, next_id, running, gen, http, fs>>

\* _analyze_categories returns
AnalyzeCategoriesReturn ==
    /\ call.fn = "_analyze_categories"
    /\ call.state = "called"
    /\ call' = [call EXCEPT !.state = "returned",
                            !.out = <<AnalyzeCategories(call.arg.clauses)>>]
    /\ UNCHANGED <<task, clause_cache, next_id, running, gen, http, fs>>

\* _calculate_overall_compliance returns
CalculateOverallComplianceReturn ==
    /\ call.fn = "_calculate_overall_compliance"
    /\ call.state = "called"
    /\ call' = [call EXCEPT
                   !.state = "returned",
                   !.out = <<CalculateOverallCompliance(call.arg.compliance_results)>>]
    /\ UNCHANGED <<task, clause_cache, next_id, running, gen, http, fs>>

\* generate_report returns or raises
GenerateReportReturn ==
    /\ call.fn = "generate_report"
    /\ call.state = "called"
    /\ \E report \in GenerateReport(call.arg.file_path, call.arg.clauses,
                                    call.arg.compliance_results, call.arg.regulations) :
          call' = [call EXCEPT !.state = "returned", !.out = <<report>>]
    /\ UNCHANGED <<task, clause_cache, next_id, running, gen, http, fs>>

NextReport ==
    \/ CalculateOverallComplianceReturn
    \/ GenerateReportReturn
    \/ AnalyzeCategoriesReturn
    \/ ExtractCriticalFindingsReturn
    \/ ExtractKeyActionsReturn

SpecReport == InitReport /\ [][NextReport]_vars

\* C18: overall_compliance counts pairs.  compliant_clauses is the number of
\* pairs with a true verdict, compliant and non-compliant add up to the
\* number of pairs, the percentage is 100 * compliant / total to the
\* hundredth (70.0 for 7 of 10), and it is 0 for no pairs.
C18_OverallCompliance ==
    (call.fn = "_calculate_overall_compliance" /\ call.state = "returned") =>
        LET verdicts == call.arg.verdicts
            total == Len(verdicts)
            compliant == Cardinality({i \in DOMAIN verdicts : verdicts[i]})
            stats == call.out[1]
            percentage == stats.compliance_percentage_x100
        IN /\ stats.compliant_clauses = compliant
           /\ stats.compliant_clauses + stats.non_compliant_clauses = total
           /\ 2 * (percentage * total - 10000 * compliant) <= total
           /\ 2 * (10000 * compliant - percentage * total) <= total
           /\ (total = 10 /\ compliant = 7) => percentage = 7000
           /\ total = 0 => percentage = 0

\* The statistics of 10 pairs of which 7 are compliant have been computed
C18_Witness ==
    /\ call.fn = "_calculate_overall_compliance"
    /\ call.state = "returned"
    /\ Len(call.arg.verdicts) = 10
    /\ Cardinality({i \in DOMAIN call.arg.verdicts : call.arg.verdicts[i]}) = 7
    /\ call.out[1].compliance_percentage_x100 = 7000

\* A statistic raises on the results given to generate_report
FailureInjected(input) ==
    \E id \in DOMAIN input.compliance_results :
        \E reg \in DOMAIN input.compliance_results[id] :
            input.compliance_results[id][reg] \in FailingResults

CountedCategory(clauses, i) ==
    IF "primary_category" \in DOMAIN clauses[i] THEN clauses[i].primary_category
    ELSE <<"o", "t", "h", "e", "r">>

\* The number of clauses that count for the category c
Frequency(clauses, c) ==
    Cardinality({i \in DOMAIN clauses : CountedCategory(clauses, i) = c})

\* The position of the first clause that counts for the category c
FirstEncounter(clauses, c) ==
    CHOOSE i \in DOMAIN clauses :
        /\ CountedCategory(clauses, i) = c
        /\ \A j \in 1..(i - 1) : CountedCategory(clauses, j) # c

\* The category c comes before the category d: it is more frequent, or as
\* frequent and met first
ComesBefore(clauses, c, d) ==
    \/ Frequency(clauses, c) > Frequency(clauses, d)
    \/ /\ Frequency(clauses, c) = Frequency(clauses, d)
       /\ FirstEncounter(clauses, c) < FirstEncounter(clauses, d)

\* C23: category_analysis counts every clause once, under its primary
\* category; its top list holds at most 3 categories, the most frequent
\* ones, in descending order of frequency, categories of equal frequency in
\* the order in which the clause list first has them.
C23_CategoryAnalysis ==
    (call.fn = "_analyze_categories" /\ call.state = "returned") =>
        LET clauses == call.arg.clauses
            present == {CountedCategory(clauses, i) : i \in DOMAIN clauses}
            distribution == call.out[1].distribution
            top == call.out[1].primary_concerns
            listed == {top[k][1] : k \in DOMAIN top}
        IN /\ DOMAIN distribution = present
           /\ \A c \in present : distribution[c] = Frequency(clauses, c)
           /\ Len(top) <= 3
           /\ Len(top) = 3 \/ listed = present
           /\ listed \subseteq present
           /\ \A k \in DOMAIN top : top[k][2] = Frequency(clauses, top[k][1])
           /\ \A k \in DOMAIN top : \A m \in DOMAIN top :
                k < m => ComesBefore(clauses, top[k][1], top[m][1])
           /\ \A c \in present \ listed : \A k \in DOMAIN top :
                ComesBefore(clauses, top[k][1], c)

\* Five clauses of four categories, three of them of one clause each: the
\* top list has to leave one of the three out
C23_Witness ==
    /\ call.fn = "_analyze_categories"
    /\ call.state = "returned"
    /\ Len(call.arg.clauses) = 5
    /\ Cardinality(DOMAIN call.out[1].distribution) = 4
    /\ Len(call.out[1].primary_concerns) = 3
    /\ call.out[1].primary_concerns[2][2] = 1

\* The texts listed under key by the pairs of risk_level "high"
HighRiskTexts(compliance_results, key) ==
    UNION {Range(compliance_results[p[1]][p[2]][key].l) :
             p \in {q \in Pairs(compliance_results) :
                      compliance_results[q[1]][q[2]].risk_level = JStr("high")}}

\* items holds no text twice and at most 5 texts, all of them among texts,
\* and all of texts when they are at most 5
ExtractOf(items, texts) ==
    /\ \A e \in DOMAIN items : items[e] = 1
    /\ Cardinality(DOMAIN items) <= 5
    /\ DOMAIN items \subseteq texts
    /\ Cardinality(texts) <= 5 => DOMAIN items = texts

\* C24: critical_findings and key_actions_required each hold at most 5 items
\* and none twice; critical_findings holds findings texts, and
\* key_actions_required recommendations texts, of pairs of risk_level high
\* only, each list whatever the other key holds, and all of these texts when
\* they are at most 5.  Checked on the two functions alone and on the summary
\* of generate_report.
C24_HighRiskExtracts ==
    /\ (call.fn = "_extract_critical_findings" /\ call.state = "returned")
          => ExtractOf(call.out[1], HighRiskTexts(call.arg.compliance_results, "findings"))
    /\ (call.fn = "_extract_key_actions" /\ call.state = "returned")
          => ExtractOf(call.out[1],
                       HighRiskTexts(call.arg.compliance_results, "recommendations"))
    /\ (/\ call.fn = "generate_report"
        /\ call.state = "returned"
        /\ ~call.out[1].raised
        /\ "critical_findings" \in DOMAIN call.out[1].value[1].summary)
          => /\ ExtractOf(call.out[1].value[1].summary.critical_findings,
                          HighRiskTexts(call.arg.compliance_results, "findings"))
             /\ ExtractOf(call.out[1].value[1].summary.key_actions_required,
                          HighRiskTexts(call.arg.compliance_results, "recommendations"))

\* _extract_critical_findings has returned 5 of 6 distinct findings of
\* high-risk pairs, one of which a pair lists twice
C24_Witness ==
    /\ call.fn = "_extract_critical_findings"
    /\ call.state = "returned"
    /\ Cardinality(HighRiskTexts(call.arg.compliance_results, "findings")) = 6
    /\ Cardinality(DOMAIN call.out[1]) = 5
    /\ \E p \in Pairs(call.arg.compliance_results) :
          call.arg.compliance_results[p[1]][p[2]].findings = JList(<<"f1", "f2", "f1">>)


====
